---- MODULE Spec2Model ----
(***************************************************************************)
(* Model of the gritto-server backend: the record store collections        *)
(* (User, Goal, Milestone, Task, SessionState, GoalPreview, Chat), the     *)
(* REST handlers of backend/src/index.ts that read and write them, and     *)
(* the exchange with the reasoning engine in the message handler.          *)
(*                                                                         *)
(* A stored document is a function from field names to values; a field     *)
(* that was never written is absent from the function's domain.  A value   *)
(* that may be undefined in the TypeScript code is a sequence of length    *)
(* at most one: << >> is undefined (or NaN after arithmetic), <<v>> is v.  *)
(***************************************************************************)
EXTENDS Integers, Sequences, FiniteSets, TLC

(***************************************************************************)
(* Bounds of the model.                                                    *)
(***************************************************************************)
MaxHours == 2
MaxGoals == 2
MaxMilestones == 2
MaxTasks == 3
MaxSessions == 2
MaxIteration == 2
MaxChat == 4
MaxInflight == 2

(***************************************************************************)
(* Program constants.                                                      *)
(***************************************************************************)
MAX_AVAILABLE_HOURS == 168

GOAL_STATUSES == {"active", "completed", "paused", "archived"}

\* availableHoursPerWeek of a user record created at sign-in
DefaultAvailableHours == 20

Users == {"u1", "u2"}

\* excludeGoalId / excludeTaskId left undefined by the caller
NoId == 0

VARIABLES
    users,                 \* User collection: userId -> document
    goals,                 \* Goal collection: sequence of documents, id = index
    milestones,            \* Milestone collection: sequence of documents
    tasks,                 \* Task collection: sequence of documents
    sessions,              \* SessionState collection: sequence of documents
    recency,               \* session ids, least recently updated first (order of updatedAt)
    previews,              \* GoalPreview collection: preview id -> << >> or <<document>>
    chat,                  \* Chat collection: session id -> sequence of messages
    bootstrapCalls,        \* session id -> number of bootstrap calls received by the engine
    runCalls,              \* session id -> number of run calls received by the engine
    requestedHours,        \* history: goal id -> minHoursPerWeek the handler accepted for it
    taskOrigin,            \* history: task id -> "api" or "finalize"
    undefinedFieldPolicy,  \* what the store does with an undefined field value
    inflight,              \* slot -> << >> or <<request>>: requests being handled
    observed,              \* the handlers whose responses are recorded in last
    last                   \* the response of the latest request, if its handler is observed

storeVars == <<users, goals, milestones, tasks, sessions, recency, previews, chat,
               bootstrapCalls, runCalls, requestedHours, taskOrigin>>

vars == <<storeVars, undefinedFieldPolicy, inflight, observed, last>>

\* The collections as one value, so that a handler is a function of the store.
Store ==
    [users |-> users, goals |-> goals, milestones |-> milestones, tasks |-> tasks,
     sessions |-> sessions, recency |-> recency, previews |-> previews, chat |-> chat,
     bootstrapCalls |-> bootstrapCalls, runCalls |-> runCalls,
     requestedHours |-> requestedHours, taskOrigin |-> taskOrigin]

Commit(st) ==
    /\ users' = st.users
    /\ goals' = st.goals
    /\ milestones' = st.milestones
    /\ tasks' = st.tasks
    /\ sessions' = st.sessions
    /\ recency' = st.recency
    /\ previews' = st.previews
    /\ chat' = st.chat
    /\ bootstrapCalls' = st.bootstrapCalls
    /\ runCalls' = st.runCalls
    /\ requestedHours' = st.requestedHours
    /\ taskOrigin' = st.taskOrigin

(***************************************************************************)
(* JavaScript value helpers.                                               *)
(***************************************************************************)
Has(o, f) == f \in DOMAIN o

\* o.f : <<>> when the property is absent
Prop(o, f) == IF Has(o, f) THEN <<o[f]>> ELSE <<>>

\* a ?? b
Coalesce(a, b) == IF a # <<>> THEN a ELSE b

\* a + b on numbers that may be undefined: NaN (<<>>) when either is
JsAdd(a, b) == IF a = <<>> \/ b = <<>> THEN <<>> ELSE <<a[1] + b[1]>>

\* a > b: false when either side is NaN
JsGreater(a, b) == a # <<>> /\ b # <<>> /\ a[1] > b[1]

Max(a, b) == IF a >= b THEN a ELSE b

\* { ...o, f: v }
With(o, f, v) == [k \in DOMAIN o \cup {f} |-> IF k = f THEN v ELSE o[k]]

(***************************************************************************)
(* Calendar days.  A stored date is the text YYYY-MM-DD; the model keeps   *)
(* the day of November 2025 as a number, so that the order of the texts    *)
(* (localeCompare) is the order of the numbers.                            *)
(***************************************************************************)
Today == 12

DateInputs == {"2025-11-10", "2025-11-10T20:00:00-05:00", "2025-11-11", "next week", ""}

\* new Date(value): << >> for Invalid Date, else the UTC day of the instant
ParseDate(value) ==
    CASE value = "2025-11-10" -> <<10>>
      [] value = "2025-11-10T20:00:00-05:00" -> <<11>>
      [] value = "2025-11-11" -> <<11>>
      [] OTHER -> <<>>

\* validateIsoDate: << >> stands for the 400 it raises
validateIsoDate(value) ==
    IF value = "" THEN <<>> ELSE ParseDate(value)

\* coerceIsoDayString: an unparsable or missing date becomes the current day
coerceIsoDayString(value) ==
    IF value # <<>> /\ value[1] # "" /\ ParseDate(value[1]) # <<>>
    THEN ParseDate(value[1])[1]
    ELSE Today

(***************************************************************************)
(* goalRepository                                                          *)
(***************************************************************************)
\* mapGoal: the GoalRecord built from a stored document
mapGoal(id, data) ==
    [id |-> id,
     userId |-> data.userId,
     status |-> Coalesce(Prop(data, "status"), <<"active">>)[1],
     hoursPerWeek |-> Coalesce(Prop(data, "hoursPerWeek"), <<0>>)[1]]

RECURSIVE SumHoursUpTo(_, _, _, _)
SumHoursUpTo(g, n, userId, excludeGoalId) ==
    IF n = 0 THEN 0
    ELSE SumHoursUpTo(g, n - 1, userId, excludeGoalId)
         + (IF /\ g[n].userId = userId
               /\ g[n].status = "active"
               /\ n # excludeGoalId
            THEN Coalesce(Prop(g[n], "hoursPerWeek"), <<0>>)[1]
            ELSE 0)

sumActiveGoalHours(g, userId, excludeGoalId) ==
    SumHoursUpTo(g, Len(g), userId, excludeGoalId)

\* createGoal: the record is built from input.hoursPerWeek; docRef.set either
\* refuses a record holding an undefined value or stores it without the field.
createGoal(g, input, policy) ==
    LET record == IF Has(input, "hoursPerWeek")
                  THEN [userId |-> input.userId, status |-> "active",
                        hoursPerWeek |-> input.hoursPerWeek]
                  ELSE [userId |-> input.userId, status |-> "active"]
    IN IF ~Has(input, "hoursPerWeek") /\ policy = "reject"
       THEN [ok |-> FALSE, goals |-> g, id |-> NoId]
       ELSE [ok |-> TRUE, goals |-> Append(g, record), id |-> Len(g) + 1]

\* updateGoal: copies status and hoursPerWeek when the updates carry them
updateGoal(g, goalId, updates) ==
    LET d0 == g[goalId]
        d1 == IF Has(updates, "status") THEN With(d0, "status", updates.status) ELSE d0
        d2 == IF Has(updates, "hoursPerWeek")
              THEN With(d1, "hoursPerWeek", updates.hoursPerWeek)
              ELSE d1
    IN [g EXCEPT ![goalId] = d2]

(***************************************************************************)
(* milestoneRepository                                                     *)
(***************************************************************************)
createMilestone(ms, input) ==
    Append(ms, [goalId |-> input.goalId, status |-> "blocked"])

updateMilestone(ms, id, updates) ==
    IF Has(updates, "status") THEN [ms EXCEPT ![id].status = updates.status] ELSE ms

(***************************************************************************)
(* taskRepository                                                          *)
(***************************************************************************)
createTask(ts, input) ==
    Append(ts, [goalId |-> input.goalId, milestoneId |-> input.milestoneId,
                userId |-> input.userId, date |-> input.date,
                estimatedHours |-> input.estimatedHours, done |-> FALSE])

updateTask(ts, id, updates) ==
    LET d0 == ts[id]
        d1 == IF Has(updates, "date") THEN [d0 EXCEPT !.date = updates.date] ELSE d0
        d2 == IF Has(updates, "estimatedHours")
              THEN [d1 EXCEPT !.estimatedHours = updates.estimatedHours] ELSE d1
        d3 == IF Has(updates, "done") THEN [d2 EXCEPT !.done = updates.done] ELSE d2
    IN [ts EXCEPT ![id] = d3]

setTaskDone(ts, id, done) == updateTask(ts, id, [done |-> done])

\* ids of the tasks of a milestone
listTasksByMilestone(ts, milestoneId) ==
    {i \in DOMAIN ts : ts[i].milestoneId = milestoneId}

\* insertion of x into a sequence sorted by date, after the entries of equal date
RECURSIVE InsertByDate(_, _)
InsertByDate(sorted, x) ==
    IF sorted = <<>> THEN <<x>>
    ELSE IF sorted[Len(sorted)].date <= x.date THEN Append(sorted, x)
    ELSE Append(InsertByDate(SubSeq(sorted, 1, Len(sorted) - 1), x), sorted[Len(sorted)])

\* Array.prototype.sort((a, b) => a.date.localeCompare(b.date)): stable
RECURSIVE SortByDate(_)
SortByDate(seq) ==
    IF seq = <<>> THEN <<>>
    ELSE InsertByDate(SortByDate(SubSeq(seq, 1, Len(seq) - 1)), seq[Len(seq)])

RECURSIVE IncompleteUpTo(_, _, _)
IncompleteUpTo(ts, n, userId) ==
    IF n = 0 THEN <<>>
    ELSE IF ts[n].userId = userId /\ ts[n].done = FALSE
         THEN Append(IncompleteUpTo(ts, n - 1, userId),
                     [id |-> n, goalId |-> ts[n].goalId, milestoneId |-> ts[n].milestoneId,
                      date |-> ts[n].date, estimatedHours |-> ts[n].estimatedHours,
                      done |-> ts[n].done])
         ELSE IncompleteUpTo(ts, n - 1, userId)

listIncompleteTasksByUser(ts, userId) ==
    SortByDate(IncompleteUpTo(ts, Len(ts), userId))

(***************************************************************************)
(* contextService                                                          *)
(***************************************************************************)
buildUserContext(st, userId, user) ==
    LET upcomingTasks == SortByDate(listIncompleteTasksByUser(st.tasks, userId))
        activeGoalHours == sumActiveGoalHours(st.goals, userId, NoId)
    IN [availableHoursLeft |-> Max(0, user.availableHoursPerWeek - activeGoalHours),
        upcomingTasks |-> upcomingTasks]

(***************************************************************************)
(* sessionRepository                                                       *)
(***************************************************************************)
createSession(st, input) ==
    [st EXCEPT
        !.sessions = Append(@, [userId |-> input.userId, state |-> "plan_generated",
                                iteration |-> 0, goalPreviewId |-> <<>>,
                                sessionActive |-> TRUE, context |-> input.context]),
        !.recency = Append(@, Len(st.sessions) + 1),
        !.chat = Append(@, <<>>),
        !.bootstrapCalls = Append(@, 0),
        !.runCalls = Append(@, 0)]

findSessionById(st, sessionId) ==
    IF sessionId \in DOMAIN st.sessions THEN <<st.sessions[sessionId]>> ELSE <<>>

RECURSIVE Without(_, _)
Without(seq, x) ==
    IF seq = <<>> THEN <<>>
    ELSE IF seq[Len(seq)] = x THEN Without(SubSeq(seq, 1, Len(seq) - 1), x)
    ELSE Append(Without(SubSeq(seq, 1, Len(seq) - 1), x), seq[Len(seq)])

updateSession(st, sessionId, updates) ==
    [st EXCEPT
        !.sessions[sessionId] =
            [@ EXCEPT !.state = updates.state, !.iteration = updates.iteration,
                      !.goalPreviewId = updates.goalPreviewId,
                      !.sessionActive = updates.sessionActive,
                      !.context = updates.context],
        !.recency = Append(Without(@, sessionId), sessionId)]

\* the most recently updated session of the user with sessionActive = true
RECURSIVE LatestActiveIn(_, _, _)
LatestActiveIn(st, order, userId) ==
    IF order = <<>> THEN <<>>
    ELSE LET id == order[Len(order)]
         IN IF st.sessions[id].userId = userId /\ st.sessions[id].sessionActive
            THEN <<id>>
            ELSE LatestActiveIn(st, SubSeq(order, 1, Len(order) - 1), userId)

findLatestActiveSession(st, userId) == LatestActiveIn(st, st.recency, userId)

appendChatMessage(st, sessionId, sender, message) ==
    [st EXCEPT !.chat[sessionId] = Append(@, [sender |-> sender, message |-> message])]

(***************************************************************************)
(* goalPreviewRepository                                                   *)
(***************************************************************************)
PreviewIds == {"p1", "p2"}

findGoalPreviewById(st, previewId) == st.previews[previewId]

FreePreviewIds(st) == {p \in PreviewIds : st.previews[p] = <<>>}

\* upsertGoalPreview: under input.id when given, else under a newly allocated id
upsertGoalPreview(st, input) ==
    LET id == IF input.id # <<>> THEN input.id[1]
              ELSE CHOOSE p \in FreePreviewIds(st) : TRUE
    IN [st |-> [st EXCEPT !.previews[id] =
                    <<[userId |-> input.userId, sessionId |-> input.sessionId,
                       data |-> input.data]>>],
        id |-> id]

(***************************************************************************)
(* agentService                                                            *)
(***************************************************************************)
\* What the engine's HTTP endpoint answers; 0 is a transport failure.
EngineStatuses == {200, 409, 500, 503, 0}

\* postAgentJson: << >> when the response is returned, else <<status>> of the
\* ApiError thrown
postAgentJson(httpStatus, allowedErrorStatuses) ==
    IF httpStatus = 0 THEN <<503>>
    ELSE IF httpStatus \notin 200..299 /\ httpStatus \notin allowedErrorStatuses
         THEN (IF httpStatus = 503 THEN <<503>> ELSE <<httpStatus>>)
    ELSE <<>>

\* variant: no error status of the bootstrap call is allowed
initRemoteSessionStrict(httpStatus) == postAgentJson(httpStatus, {})

initRemoteSession(httpStatus) == postAgentJson(httpStatus, {409})

\* buildAgentInvocationPayload: the message and the context parts sent to /run
buildAgentInvocationPayload(options) ==
    [user_id |-> options.userId,
     session_id |-> options.sessionId,
     parts |->
        <<[text |-> options.message]>>
        \o (IF options.goalPreview # <<>> /\ options.goalPreview[1] # <<>>
            THEN <<[name |-> "goal_preview_context",
                    args |-> [goalPreview |-> options.goalPreview[1]]]>>
            ELSE <<>>)
        \o <<[name |-> "time_context",
              args |-> [availableHoursLeft |-> options.availableHoursLeft]]>>
        \o (IF options.upcomingTasks # <<>>
            THEN <<[name |-> "task_context",
                    args |-> [upcomingTasks |-> options.upcomingTasks]]>>
            ELSE <<>>)]

invokeAgentService(httpStatus) == postAgentJson(httpStatus, {})

(***************************************************************************)
(* Requests.  A handler is a sequence of phases, one per stretch of code   *)
(* between two awaited store or engine calls that matter to other          *)
(* requests; rq holds the handler's local variables, rq.pc the phase it is *)
(* about to run and rq.resp the response once rq.pc = "done".  rq.blocked  *)
(* marks a phase that a bound of the model does not let run.               *)
(***************************************************************************)
Request(op, userId, pc, locals) ==
    [op |-> op, user |-> userId, input |-> locals, pc |-> pc, locals |-> locals,
     resp |-> <<>>, blocked |-> FALSE]

Respond(rq, status, fields) ==
    [rq EXCEPT !.pc = "done",
               !.resp = [op |-> rq.op, user |-> rq.user, input |-> rq.input,
                         status |-> status,
                         body |-> fields]]

Goto(rq, pc) == [rq EXCEPT !.pc = pc]

Block(rq) == [rq EXCEPT !.blocked = TRUE]

\* totalHours > user.availableHoursPerWeek, with totalHours = existing + new
exceedsCapacity(existingHours, newHours, availableHoursPerWeek) ==
    JsGreater(JsAdd(<<existingHours>>, newHours), <<availableHoursPerWeek>>)

\* assertOwnedGoal: <<status>> of the error, or << >>
assertOwnedGoal(st, goalId, userId) ==
    IF goalId \notin DOMAIN st.goals THEN <<404>>
    ELSE IF st.goals[goalId].userId # userId THEN <<403>>
    ELSE <<>>

\* a variant that stops at the immediate parent: the milestone only has to exist
assertOwnedMilestoneParentOnly(st, milestoneId, userId) ==
    IF milestoneId \notin DOMAIN st.milestones THEN <<404>>
    ELSE <<>>

assertOwnedMilestone(st, milestoneId, userId) ==
    IF milestoneId \notin DOMAIN st.milestones THEN <<404>>
    ELSE assertOwnedGoal(st, st.milestones[milestoneId].goalId, userId)

assertOwnedTask(st, taskId, userId) ==
    IF taskId \notin DOMAIN st.tasks THEN <<404>>
    ELSE assertOwnedMilestone(st, st.tasks[taskId].milestoneId, userId)

(***************************************************************************)
(* PATCH /v1/me   body: {availableHoursPerWeek}                            *)
(***************************************************************************)
PatchMeRequest(userId, availableHoursPerWeek) ==
    Request("PATCH /v1/me", userId, "check",
            [availableHoursPerWeek |-> availableHoursPerWeek])

PatchMeStep(st, rq) ==
    LET hours == rq.locals.availableHoursPerWeek
        activeHours == sumActiveGoalHours(st.goals, rq.user, NoId)
    IN CASE rq.pc = "check" ->
              IF ~(hours >= 0 /\ hours <= MAX_AVAILABLE_HOURS)
              THEN [st |-> st, rq |-> Respond(rq, 400, <<>>)]
              ELSE IF hours < activeHours
              THEN [st |-> st,
                    rq |-> Respond(rq, 409, [availableHoursPerWeek |-> hours,
                                             requiredHoursPerWeek |-> activeHours])]
              ELSE [st |-> st, rq |-> Goto(rq, "write")]
         [] rq.pc = "write" ->
              [st |-> [st EXCEPT !.users[rq.user].availableHoursPerWeek = hours],
               rq |-> Respond(rq, 200, [availableHoursPerWeek |-> hours])]

(***************************************************************************)
(* POST /v1/goals   body: {minHoursPerWeek}                                *)
(***************************************************************************)
PostGoalsRequest(userId, minHoursPerWeek) ==
    Request("POST /v1/goals", userId, "check",
            [minHoursPerWeek |-> minHoursPerWeek])

PostGoalsStep(st, rq, policy) ==
    LET minHoursPerWeek == rq.locals.minHoursPerWeek
        user == st.users[rq.user]
        existingHours == sumActiveGoalHours(st.goals, rq.user, NoId)
        totalHours == existingHours + minHoursPerWeek
        created == createGoal(st.goals, [userId |-> rq.user,
                                         minHoursPerWeek |-> minHoursPerWeek], policy)
    IN CASE rq.pc = "check" ->
              IF minHoursPerWeek < 0
              THEN [st |-> st, rq |-> Respond(rq, 400, <<>>)]
              ELSE IF exceedsCapacity(existingHours, <<minHoursPerWeek>>,
                                      user.availableHoursPerWeek)
              THEN [st |-> st,
                    rq |-> Respond(rq, 409,
                                   [availableHoursPerWeek |-> user.availableHoursPerWeek,
                                    requiredHoursPerWeek |-> totalHours])]
              ELSE [st |-> st, rq |-> Goto(rq, "create")]
         [] rq.pc = "create" ->
              IF Len(st.goals) >= MaxGoals THEN [st |-> st, rq |-> Block(rq)]
              ELSE IF ~created.ok
              THEN [st |-> st, rq |-> Respond(rq, 500, <<>>)]
              ELSE [st |-> [st EXCEPT !.goals = created.goals,
                                      !.requestedHours = Append(@, minHoursPerWeek)],
                    rq |-> Respond(rq, 201, [goalId |-> created.id])]

(***************************************************************************)
(* PATCH /v1/goals/:goalId   body: {status?, minHoursPerWeek?, title?}     *)
(***************************************************************************)
PatchGoalRequest(userId, goalId, status, minHoursPerWeek, title) ==
    Request("PATCH /v1/goals/:goalId", userId, "check",
            [goalId |-> goalId, status |-> status,
             minHoursPerWeek |-> minHoursPerWeek, title |-> title])

PatchGoalStep(st, rq) ==
    LET b == rq.locals
        owned == assertOwnedGoal(st, b.goalId, rq.user)
        goal == mapGoal(b.goalId, st.goals[b.goalId])
        u1 == IF b.status # <<>> THEN With(<<>>, "status", b.status[1]) ELSE <<>>
        updates == IF b.minHoursPerWeek # <<>>
                   THEN With(u1, "minHoursPerWeek", b.minHoursPerWeek[1]) ELSE u1
        user == st.users[rq.user]
        nextStatus == Coalesce(Prop(updates, "status"), <<goal.status>>)[1]
        nextHours == Coalesce(Prop(updates, "minHoursPerWeek"), Prop(goal, "minHoursPerWeek"))
        otherHours == sumActiveGoalHours(st.goals, rq.user, b.goalId)
    IN CASE rq.pc = "check" ->
              IF owned # <<>> THEN [st |-> st, rq |-> Respond(rq, owned[1], <<>>)]
              ELSE IF b.status # <<>> /\ b.status[1] \notin GOAL_STATUSES
              THEN [st |-> st, rq |-> Respond(rq, 400, <<>>)]
              ELSE IF b.minHoursPerWeek # <<>> /\ b.minHoursPerWeek[1] < 0
              THEN [st |-> st, rq |-> Respond(rq, 400, <<>>)]
              ELSE IF updates = <<>> /\ ~b.title
              THEN [st |-> st, rq |-> Respond(rq, 400, <<>>)]
              ELSE IF nextStatus = "active"
                      /\ exceedsCapacity(otherHours, nextHours, user.availableHoursPerWeek)
              THEN [st |-> st,
                    rq |-> Respond(rq, 409,
                                   [availableHoursPerWeek |-> user.availableHoursPerWeek,
                                    requiredHoursPerWeek |-> otherHours + nextHours[1]])]
              ELSE [st |-> st, rq |-> Goto(rq, "write")]
         [] rq.pc = "write" ->
              IF b.goalId \notin DOMAIN st.goals
              THEN [st |-> st, rq |-> Respond(rq, 404, <<>>)]
              ELSE [st |-> [st EXCEPT
                              !.goals = updateGoal(@, b.goalId, updates),
                              !.requestedHours[b.goalId] =
                                  IF b.minHoursPerWeek # <<>> THEN b.minHoursPerWeek[1] ELSE @],
                    rq |-> Respond(rq, 200, [goalId |-> b.goalId])]

(***************************************************************************)
(* POST /v1/goals/:goalId/milestones                                       *)
(***************************************************************************)
PostMilestoneRequest(userId, goalId) ==
    Request("POST /v1/goals/:goalId/milestones", userId, "check", [goalId |-> goalId])

PostMilestoneStep(st, rq) ==
    LET owned == assertOwnedGoal(st, rq.locals.goalId, rq.user)
    IN CASE rq.pc = "check" ->
              IF owned # <<>> THEN [st |-> st, rq |-> Respond(rq, owned[1], <<>>)]
              ELSE [st |-> st, rq |-> Goto(rq, "create")]
         [] rq.pc = "create" ->
              IF Len(st.milestones) >= MaxMilestones THEN [st |-> st, rq |-> Block(rq)]
              ELSE [st |-> [st EXCEPT !.milestones =
                                createMilestone(@, [goalId |-> rq.locals.goalId])],
                    rq |-> Respond(rq, 201, [milestoneId |-> Len(st.milestones) + 1])]

(***************************************************************************)
(* ensureNoTaskConflict: the ids of the colliding tasks (409 when any)     *)
(***************************************************************************)
\* variant: the dates are not compared, no task collides
ensureNoTaskConflictIgnoringDate(ts, milestoneId, userId, date, excludeTaskId) == {}

\* variant: the task being updated is not excluded
ensureNoTaskConflictWithSelf(ts, milestoneId, userId, date, excludeTaskId) ==
    {i \in listTasksByMilestone(ts, milestoneId) :
        ts[i].userId = userId /\ ts[i].date = date}

ensureNoTaskConflict(ts, milestoneId, userId, date, excludeTaskId) ==
    {i \in listTasksByMilestone(ts, milestoneId) :
        i # excludeTaskId /\ ts[i].userId = userId /\ ts[i].date = date}

(***************************************************************************)
(* POST /v1/milestones/:milestoneId/tasks   body: {date, estimatedHours}   *)
(***************************************************************************)
PostTaskRequest(userId, milestoneId, date, estimatedHours) ==
    Request("POST /v1/milestones/:milestoneId/tasks", userId, "check",
            [milestoneId |-> milestoneId, date |-> date,
             estimatedHours |-> estimatedHours])

PostTaskStep(st, rq) ==
    LET b == rq.locals
        owned == assertOwnedMilestone(st, b.milestoneId, rq.user)
        milestone == st.milestones[b.milestoneId]
        taskDate == validateIsoDate(b.date)
        conflicting == ensureNoTaskConflict(st.tasks, b.milestoneId, rq.user,
                                            taskDate[1], NoId)
    IN CASE rq.pc = "check" ->
              IF owned # <<>> THEN [st |-> st, rq |-> Respond(rq, owned[1], <<>>)]
              ELSE IF taskDate = <<>> THEN [st |-> st, rq |-> Respond(rq, 400, <<>>)]
              ELSE IF b.estimatedHours < 0 THEN [st |-> st, rq |-> Respond(rq, 400, <<>>)]
              ELSE IF conflicting # {}
              THEN [st |-> st,
                    rq |-> Respond(rq, 409, [conflictingTaskIds |-> conflicting])]
              ELSE [st |-> st, rq |-> Goto(rq, "create")]
         [] rq.pc = "create" ->
              IF Len(st.tasks) >= MaxTasks THEN [st |-> st, rq |-> Block(rq)]
              ELSE [st |-> [st EXCEPT
                              !.tasks = createTask(@, [goalId |-> milestone.goalId,
                                                       milestoneId |-> b.milestoneId,
                                                       userId |-> rq.user,
                                                       date |-> taskDate[1],
                                                       estimatedHours |-> b.estimatedHours]),
                              !.taskOrigin = Append(@, "api")],
                    rq |-> Respond(rq, 201, [taskId |-> Len(st.tasks) + 1])]

(***************************************************************************)
(* PATCH /v1/tasks/:taskId   body: {date?, done?, title?}                  *)
(***************************************************************************)
PatchTaskRequest(userId, taskId, date, done, title) ==
    Request("PATCH /v1/tasks/:taskId", userId, "check",
            [taskId |-> taskId, date |-> date, done |-> done, title |-> title])

PatchTaskStep(st, rq) ==
    LET b == rq.locals
        owned == assertOwnedTask(st, b.taskId, rq.user)
        task == st.tasks[b.taskId]
        newDate == validateIsoDate(b.date[1])
        conflicting == ensureNoTaskConflict(st.tasks, task.milestoneId, rq.user,
                                            newDate[1], b.taskId)
        u1 == IF b.date # <<>> THEN With(<<>>, "date", newDate[1]) ELSE <<>>
        updates == IF b.done # <<>> THEN With(u1, "done", b.done[1]) ELSE u1
    IN CASE rq.pc = "check" ->
              IF owned # <<>> THEN [st |-> st, rq |-> Respond(rq, owned[1], <<>>)]
              ELSE IF b.date # <<>> /\ newDate = <<>>
              THEN [st |-> st, rq |-> Respond(rq, 400, <<>>)]
              ELSE IF b.date # <<>> /\ conflicting # {}
              THEN [st |-> st,
                    rq |-> Respond(rq, 409, [conflictingTaskIds |-> conflicting])]
              ELSE IF updates = <<>> /\ ~b.title
              THEN [st |-> st, rq |-> Respond(rq, 400, <<>>)]
              ELSE [st |-> st, rq |-> Goto(rq, "write")]
         [] rq.pc = "write" ->
              [st |-> [st EXCEPT !.tasks = updateTask(@, b.taskId, updates)],
               rq |-> Respond(rq, 200, [taskId |-> b.taskId])]

(***************************************************************************)
(* POST /v1/tasks/:taskId/done and /undone                                 *)
(***************************************************************************)
TaskDoneRequest(userId, taskId, done) ==
    Request("POST /v1/tasks/:taskId/done", userId, "check",
            [taskId |-> taskId, done |-> done])

TaskDoneStep(st, rq) ==
    LET owned == assertOwnedTask(st, rq.locals.taskId, rq.user)
    IN CASE rq.pc = "check" ->
              IF owned # <<>> THEN [st |-> st, rq |-> Respond(rq, owned[1], <<>>)]
              ELSE [st |-> st, rq |-> Goto(rq, "write")]
         [] rq.pc = "write" ->
              [st |-> [st EXCEPT !.tasks = setTaskDone(@, rq.locals.taskId, rq.locals.done)],
               rq |-> Respond(rq, 200, [taskId |-> rq.locals.taskId])]

(***************************************************************************)
(* GET /v1/tasks/:taskId                                                   *)
(***************************************************************************)
GetTaskRequest(userId, taskId) ==
    Request("GET /v1/tasks/:taskId", userId, "check", [taskId |-> taskId])

GetTaskStep(st, rq) ==
    LET owned == assertOwnedTask(st, rq.locals.taskId, rq.user)
    IN IF owned # <<>> THEN [st |-> st, rq |-> Respond(rq, owned[1], <<>>)]
       ELSE [st |-> st,
             rq |-> Respond(rq, 200, [data |-> st.tasks[rq.locals.taskId]])]

(***************************************************************************)
(* GET /v1/agent/goal/session:latest                                       *)
(***************************************************************************)
GetLatestSessionRequest(userId) ==
    Request("GET /v1/agent/goal/session:latest", userId, "find", <<>>)

\* variant: the user's last created session is returned whether active or not
GetLatestSessionStepReturningClosed(st, rq) ==
    LET mine == {id \in DOMAIN st.sessions : st.sessions[id].userId = rq.user}
        user == st.users[rq.user]
        context == buildUserContext(st, rq.user, user)
    IN CASE rq.pc = "find" ->
              IF mine # {}
              THEN [st |-> st,
                    rq |-> Respond(rq, 200,
                                   [sessionId |-> CHOOSE id \in mine : \A o \in mine : o <= id])]
              ELSE [st |-> st, rq |-> Goto(rq, "create")]
         [] rq.pc = "create" ->
              IF Len(st.sessions) >= MaxSessions THEN [st |-> st, rq |-> Block(rq)]
              ELSE [st |-> createSession(st, [userId |-> rq.user, context |-> context]),
                    rq |-> Respond(rq, 201, [sessionId |-> Len(st.sessions) + 1])]

GetLatestSessionStep(st, rq) ==
    LET found == findLatestActiveSession(st, rq.user)
        user == st.users[rq.user]
        context == buildUserContext(st, rq.user, user)
    IN CASE rq.pc = "find" ->
              IF found # <<>>
              THEN [st |-> st, rq |-> Respond(rq, 200, [sessionId |-> found[1]])]
              ELSE [st |-> st, rq |-> Goto(rq, "create")]
         [] rq.pc = "create" ->
              IF Len(st.sessions) >= MaxSessions THEN [st |-> st, rq |-> Block(rq)]
              ELSE [st |-> createSession(st, [userId |-> rq.user, context |-> context]),
                    rq |-> Respond(rq, 201, [sessionId |-> Len(st.sessions) + 1])]

(***************************************************************************)
(* Finalization Committer: finalizeGoalPlanFromAgentPayload                *)
(***************************************************************************)
MILESTONE_STATUSES == {"blocked", "in_progress", "finished"}

\* obj?.f on an object that may be undefined
OptProp(obj, f) == IF obj = <<>> THEN <<>> ELSE Prop(obj[1], f)

\* extractPlanContainer: payload.goalPreview ?? payload.plan ?? preview?.data ?? payload
extractPlanContainer(payload, preview) ==
    Coalesce(Prop(payload, "goalPreview"),
        Coalesce(Prop(payload, "plan"),
            Coalesce(OptProp(preview, "data"), <<payload>>)))[1]

\* variant: the hours of a task plan are not clamped at 0
planTaskHoursUnclamped(taskPlan) ==
    IF Has(taskPlan, "estimatedHours") THEN taskPlan.estimatedHours ELSE 0

\* estimatedHours of a task plan: a finite number clamped at 0, else 0
planTaskHours(taskPlan) ==
    IF Has(taskPlan, "estimatedHours") THEN Max(0, taskPlan.estimatedHours) ELSE 0

planTasks(milestonePlan) ==
    IF Has(milestonePlan, "tasks") THEN milestonePlan.tasks ELSE <<>>

RECURSIVE SumTaskHours(_)
SumTaskHours(taskPlans) ==
    IF taskPlans = <<>> THEN 0
    ELSE SumTaskHours(SubSeq(taskPlans, 1, Len(taskPlans) - 1))
         + planTaskHours(taskPlans[Len(taskPlans)])

RECURSIVE computePlanTaskHours(_)
computePlanTaskHours(milestonePlans) ==
    IF milestonePlans = <<>> THEN 0
    ELSE computePlanTaskHours(SubSeq(milestonePlans, 1, Len(milestonePlans) - 1))
         + SumTaskHours(planTasks(milestonePlans[Len(milestonePlans)]))

RECURSIVE CountPlanTasks(_)
CountPlanTasks(milestonePlans) ==
    IF milestonePlans = <<>> THEN 0
    ELSE CountPlanTasks(SubSeq(milestonePlans, 1, Len(milestonePlans) - 1))
         + Len(planTasks(milestonePlans[Len(milestonePlans)]))

\* lines 334-355: the plan read from the payload and the store
resolvePlan(st, payload) ==
    LET previewId == Coalesce(Prop(payload, "goalPreviewId"),
                              OptProp(Prop(payload, "goalPreview"), "id"))
        previewRecord == IF previewId # <<>> THEN findGoalPreviewById(st, previewId[1])
                         ELSE <<>>
        planContainer == extractPlanContainer(payload, previewRecord)
        goalPlan == Coalesce(Prop(planContainer, "goal"), << <<>> >>)[1]
        milestonePlans == Coalesce(Prop(planContainer, "milestones"), << <<>> >>)[1]
        planHours == IF Has(goalPlan, "minHoursPerWeek")
                     THEN Max(0, goalPlan.minHoursPerWeek)
                     ELSE computePlanTaskHours(milestonePlans)
    IN [previewId |-> previewId, planContainer |-> planContainer,
        milestonePlans |-> milestonePlans, planHours |-> planHours]

\* variant: the tasks are created and none is flipped to done
RECURSIVE commitTasksLeavingUndone(_, _, _, _, _)
commitTasksLeavingUndone(st, goalId, milestoneId, userId, taskPlans) ==
    IF taskPlans = <<>> THEN st
    ELSE LET before == commitTasksLeavingUndone(st, goalId, milestoneId, userId,
                                                SubSeq(taskPlans, 1, Len(taskPlans) - 1))
             taskPlan == taskPlans[Len(taskPlans)]
             created == createTask(before.tasks,
                                   [goalId |-> goalId, milestoneId |-> milestoneId,
                                    userId |-> userId,
                                    date |-> coerceIsoDayString(Prop(taskPlan, "date")),
                                    estimatedHours |-> planTaskHours(taskPlan)])
         IN [before EXCEPT !.tasks = created,
                           !.taskOrigin = Append(@, "finalize")]

\* lines 408-432: the tasks of one milestone plan
RECURSIVE commitTasks(_, _, _, _, _)
commitTasks(st, goalId, milestoneId, userId, taskPlans) ==
    IF taskPlans = <<>> THEN st
    ELSE LET before == commitTasks(st, goalId, milestoneId, userId,
                                   SubSeq(taskPlans, 1, Len(taskPlans) - 1))
             taskPlan == taskPlans[Len(taskPlans)]
             created == createTask(before.tasks,
                                   [goalId |-> goalId, milestoneId |-> milestoneId,
                                    userId |-> userId,
                                    date |-> coerceIsoDayString(Prop(taskPlan, "date")),
                                    estimatedHours |-> planTaskHours(taskPlan)])
             id == Len(created)
             done == Has(taskPlan, "done") /\ taskPlan.done
         IN [before EXCEPT
                !.tasks = IF done THEN setTaskDone(created, id, TRUE) ELSE created,
                !.taskOrigin = Append(@, "finalize")]

\* lines 385-433: the milestones of the plan, each with its tasks
RECURSIVE commitMilestones(_, _, _, _)
commitMilestones(st, goalId, userId, milestonePlans) ==
    IF milestonePlans = <<>> THEN st
    ELSE LET before == commitMilestones(st, goalId, userId,
                                        SubSeq(milestonePlans, 1, Len(milestonePlans) - 1))
             milestonePlan == milestonePlans[Len(milestonePlans)]
             created == createMilestone(before.milestones, [goalId |-> goalId])
             id == Len(created)
             status == Prop(milestonePlan, "status")
             withStatus == IF /\ status # <<>>
                              /\ status[1] \in MILESTONE_STATUSES
                              /\ status[1] # created[id].status
                           THEN updateMilestone(created, id, [status |-> status[1]])
                           ELSE created
         IN commitTasks([before EXCEPT !.milestones = withStatus],
                        goalId, id, userId, planTasks(milestonePlan))

\* lines 357-371: the capacity re-validation
finalizeExceeds(st, user, userId, plan) ==
    exceedsCapacity(sumActiveGoalHours(st.goals, userId, NoId), <<plan.planHours>>,
                    user.availableHoursPerWeek)

\* lines 373-435: the writes; ok = FALSE when createGoal throws
finalizeCommit(st, userId, plan, policy) ==
    LET created == createGoal(st.goals, [userId |-> userId,
                                         minHoursPerWeek |-> plan.planHours], policy)
        withGoal == [st EXCEPT !.goals = created.goals,
                               !.requestedHours = Append(@, plan.planHours)]
        after == commitMilestones(withGoal, created.id, userId, plan.milestonePlans)
    IN IF ~created.ok THEN [ok |-> FALSE, st |-> st, goalId |-> NoId,
                            milestoneIds |-> <<>>, taskIds |-> <<>>]
       ELSE [ok |-> TRUE, st |-> after, goalId |-> created.id,
             milestoneIds |-> [i \in 1..(Len(after.milestones) - Len(st.milestones)) |->
                                  Len(st.milestones) + i],
             taskIds |-> [i \in 1..(Len(after.tasks) - Len(st.tasks)) |->
                             Len(st.tasks) + i]]

\* lines 373-435 when a store write throws after createGoal returned: the
\* records written before it stay, no catch removes them.  storeFailure names
\* the write that throws: the first createMilestone or the first createTask;
\* << >> when the plan makes no such write or createGoal itself throws.
finalizeInterrupted(st, userId, plan, policy, storeFailure) ==
    LET created == createGoal(st.goals, [userId |-> userId,
                                         minHoursPerWeek |-> plan.planHours], policy)
        withGoal == [st EXCEPT !.goals = created.goals,
                               !.requestedHours = Append(@, plan.planHours)]
        first == plan.milestonePlans[1]
    IN IF ~created.ok \/ plan.milestonePlans = <<>> THEN <<>>
       ELSE IF storeFailure = "milestone" THEN <<withGoal>>
       ELSE IF storeFailure = "task" /\ planTasks(first) # <<>>
            THEN <<commitMilestones(withGoal, created.id, userId,
                                    <<With(first, "tasks", <<>>)>>)>>
       ELSE <<>>

finalizeFits(st, plan) ==
    /\ Len(st.goals) + 1 <= MaxGoals
    /\ Len(st.milestones) + Len(plan.milestonePlans) <= MaxMilestones
    /\ Len(st.tasks) + CountPlanTasks(plan.milestonePlans) <= MaxTasks

(***************************************************************************)
(* POST /v1/agent/goal/session:message                                     *)
(*   body: {sessionId, message, goalPreview?, userId?}                     *)
(* sessionId 0 and message "" stand for a missing or blank field.          *)
(***************************************************************************)
MessageRequest(userId, sessionId, message, goalPreview, payloadUserId) ==
    Request("POST /v1/agent/goal/session:message", userId, "start",
            [sessionId |-> sessionId, message |-> message,
             goalPreview |-> goalPreview, payloadUserId |-> payloadUserId,
             session |-> <<>>, userRec |-> <<>>, contextSnapshot |-> <<>>,
             shouldInitRemoteSession |-> FALSE, previewForContext |-> <<>>,
             agentResponse |-> <<>>, goalPreviewId |-> <<>>, sessionActive |-> FALSE,
             updatedContext |-> <<>>, responseAction |-> <<>>, plan |-> <<>>])

\* variant: a finalized session is refused like a session of another user
MessageStartForbidden(st, rq) ==
    LET b == rq.locals
        session == findSessionById(st, b.sessionId)
    IN IF b.sessionId = 0 THEN Respond(rq, 400, [error |-> "sessionId is required"])
       ELSE IF b.message = "" THEN Respond(rq, 400, [error |-> "message is required"])
       ELSE IF b.payloadUserId # <<>> /\ b.payloadUserId[1] # rq.user
       THEN Respond(rq, 401, [error |-> "Unauthorized"])
       ELSE IF session = <<>> THEN Respond(rq, 400, [error |-> "session not found"])
       ELSE IF session[1].userId # rq.user \/ ~session[1].sessionActive
       THEN Respond(rq, 401, [error |-> "Unauthorized"])
       ELSE [rq EXCEPT !.pc = "load", !.locals.session = session[1]]

\* variant: session.sessionActive is not asserted
MessageStartNoActiveCheck(st, rq) ==
    LET b == rq.locals
        session == findSessionById(st, b.sessionId)
    IN IF b.sessionId = 0 THEN Respond(rq, 400, [error |-> "sessionId is required"])
       ELSE IF b.message = "" THEN Respond(rq, 400, [error |-> "message is required"])
       ELSE IF b.payloadUserId # <<>> /\ b.payloadUserId[1] # rq.user
       THEN Respond(rq, 401, [error |-> "Unauthorized"])
       ELSE IF session = <<>> THEN Respond(rq, 400, [error |-> "session not found"])
       ELSE IF session[1].userId # rq.user
       THEN Respond(rq, 401, [error |-> "Unauthorized"])
       ELSE [rq EXCEPT !.pc = "load", !.locals.session = session[1]]

\* lines 1030-1040: validation and session authorization
MessageStart(st, rq) ==
    LET b == rq.locals
        session == findSessionById(st, b.sessionId)
    IN IF b.sessionId = 0 THEN Respond(rq, 400, [error |-> "sessionId is required"])
       ELSE IF b.message = "" THEN Respond(rq, 400, [error |-> "message is required"])
       ELSE IF b.payloadUserId # <<>> /\ b.payloadUserId[1] # rq.user
       THEN Respond(rq, 401, [error |-> "Unauthorized"])
       ELSE IF session = <<>> THEN Respond(rq, 400, [error |-> "session not found"])
       ELSE IF session[1].userId # rq.user
       THEN Respond(rq, 401, [error |-> "Unauthorized"])
       ELSE IF ~session[1].sessionActive
       THEN Respond(rq, 409, [error |-> "session is finalized"])
       ELSE [rq EXCEPT !.pc = "load", !.locals.session = session[1]]

\* variant: the engine is called before the user's message is appended
MessageLoadSkippingAppend(st, rq) ==
    LET b == rq.locals
        user == st.users[rq.user]
        stored == IF b.goalPreview = <<>> /\ b.session.goalPreviewId # <<>>
                  THEN OptProp(findGoalPreviewById(st, b.session.goalPreviewId[1]), "data")
                  ELSE b.goalPreview
    IN [rq EXCEPT !.pc = IF b.session.iteration = 0 THEN "bootstrap" ELSE "run",
                  !.locals.userRec = user,
                  !.locals.contextSnapshot = buildUserContext(st, rq.user, user),
                  !.locals.shouldInitRemoteSession = (b.session.iteration = 0),
                  !.locals.previewForContext = stored]

\* variant: the context forwarded is the one stored in the session
MessageLoadForwardingStored(st, rq) ==
    LET b == rq.locals
        user == st.users[rq.user]
        stored == IF b.goalPreview = <<>> /\ b.session.goalPreviewId # <<>>
                  THEN OptProp(findGoalPreviewById(st, b.session.goalPreviewId[1]), "data")
                  ELSE b.goalPreview
    IN [rq EXCEPT !.pc = "appendUser",
                  !.locals.userRec = user,
                  !.locals.contextSnapshot = b.session.context,
                  !.locals.shouldInitRemoteSession = (b.session.iteration = 0),
                  !.locals.previewForContext = stored]

\* variant: the remote session is initialized on every message
MessageLoadAlwaysInit(st, rq) ==
    LET b == rq.locals
        user == st.users[rq.user]
        stored == IF b.goalPreview = <<>> /\ b.session.goalPreviewId # <<>>
                  THEN OptProp(findGoalPreviewById(st, b.session.goalPreviewId[1]), "data")
                  ELSE b.goalPreview
    IN [rq EXCEPT !.pc = "appendUser",
                  !.locals.userRec = user,
                  !.locals.contextSnapshot = buildUserContext(st, rq.user, user),
                  !.locals.shouldInitRemoteSession = TRUE,
                  !.locals.previewForContext = stored]

\* lines 1042-1051: the user, the context snapshot and the preview to forward
MessageLoad(st, rq) ==
    LET b == rq.locals
        user == st.users[rq.user]
        stored == IF b.goalPreview = <<>> /\ b.session.goalPreviewId # <<>>
                  THEN OptProp(findGoalPreviewById(st, b.session.goalPreviewId[1]), "data")
                  ELSE b.goalPreview
    IN [rq EXCEPT !.pc = "appendUser",
                  !.locals.userRec = user,
                  !.locals.contextSnapshot = buildUserContext(st, rq.user, user),
                  !.locals.shouldInitRemoteSession = (b.session.iteration = 0),
                  !.locals.previewForContext = stored]

\* variant: every action other than finalize_goal is handled as save_preview
MessageLocalsSavingAlways(rq, agentResponse) ==
    LET b == rq.locals
        action == agentResponse.action
    IN [rq EXCEPT
           !.locals.agentResponse = agentResponse,
           !.locals.goalPreviewId = b.session.goalPreviewId,
           !.locals.sessionActive =
               Coalesce(OptProp(agentResponse.state, "sessionActive"),
                        <<b.session.sessionActive>>)[1],
           !.locals.updatedContext =
               Coalesce(agentResponse.context, <<b.contextSnapshot>>)[1],
           !.locals.responseAction = action,
           !.pc = IF OptProp(action, "type") = <<"finalize_goal">> THEN "finalizeCheck"
                  ELSE IF action # <<>> THEN "savePreview"
                  ELSE "updateSession"]

\* lines 1082-1093: the locals set from the engine's response
MessageLocals(rq, agentResponse) ==
    LET b == rq.locals
        action == agentResponse.action
    IN [rq EXCEPT
           !.locals.agentResponse = agentResponse,
           !.locals.goalPreviewId = b.session.goalPreviewId,
           !.locals.sessionActive =
               Coalesce(OptProp(agentResponse.state, "sessionActive"),
                        <<b.session.sessionActive>>)[1],
           !.locals.updatedContext =
               Coalesce(agentResponse.context, <<b.contextSnapshot>>)[1],
           !.locals.responseAction = action,
           !.pc = IF OptProp(action, "type") = <<"save_preview">> THEN "savePreview"
                  ELSE IF OptProp(action, "type") = <<"finalize_goal">> THEN "finalizeCheck"
                  ELSE "updateSession"]

\* lines 1064-1071: the payload of the run call of the request
agentPayload(rq) ==
    buildAgentInvocationPayload(
        [userId |-> rq.user, sessionId |-> rq.locals.sessionId,
         message |-> rq.locals.message,
         goalPreview |-> rq.locals.previewForContext,
         availableHoursLeft |-> rq.locals.contextSnapshot.availableHoursLeft,
         upcomingTasks |-> rq.locals.contextSnapshot.upcomingTasks])

\* responseAction.payload, {} when the action carries none
actionPayload(rq) ==
    Coalesce(OptProp(rq.locals.responseAction, "payload"), << <<>> >>)[1]

\* variant: the id carried by the payload is not read
extractPreviewPayloadWithoutId(payload) ==
    [id |-> <<>>, data |-> Coalesce(Prop(payload, "goalPreview"), <<payload>>)[1]]

\* extractPreviewPayload
extractPreviewPayload(payload) ==
    LET data == Coalesce(Prop(payload, "goalPreview"), <<payload>>)[1]
    IN [id |-> Coalesce(Prop(payload, "goalPreviewId"), Prop(data, "id")),
        data |-> data]

\* variant: the engine's iteration is not read
MessageUpdateCountingAlone(st, rq) ==
    LET b == rq.locals
        state == b.agentResponse.state
        updates ==
            [state |-> Coalesce(OptProp(state, "state"), <<b.session.state>>)[1],
             iteration |-> b.session.iteration + 1,
             goalPreviewId |-> Coalesce(OptProp(state, "goalPreviewId"), b.goalPreviewId),
             sessionActive |-> b.sessionActive,
             context |-> b.updatedContext]
        after == updateSession(st, b.sessionId, updates)
    IN IF updates.iteration > MaxIteration THEN [st |-> st, rq |-> Block(rq)]
       ELSE IF b.agentResponse.action = <<>>
       THEN \* console.log(agentResponse.action.payload?.goalPreview) throws
            [st |-> after, rq |-> Respond(rq, 500, [error |-> "Internal server error"])]
       ELSE [st |-> after,
             rq |-> Respond(rq, 200,
                            [sessionId |-> b.sessionId,
                             action |-> b.responseAction[1],
                             state |-> [state |-> updates.state,
                                        iteration |-> updates.iteration,
                                        sessionActive |-> updates.sessionActive,
                                        goalPreviewId |-> updates.goalPreviewId],
                             context |-> updates.context])]

\* variant: state and goalPreviewId not supplied by the engine are reset
MessageUpdateResettingFields(st, rq) ==
    LET b == rq.locals
        state == b.agentResponse.state
        updates ==
            [state |-> Coalesce(OptProp(state, "state"), <<"plan_generated">>)[1],
             iteration |-> Coalesce(OptProp(state, "iteration"),
                                    <<b.session.iteration + 1>>)[1],
             goalPreviewId |-> OptProp(state, "goalPreviewId"),
             sessionActive |-> b.sessionActive,
             context |-> b.updatedContext]
        after == updateSession(st, b.sessionId, updates)
    IN IF updates.iteration > MaxIteration THEN [st |-> st, rq |-> Block(rq)]
       ELSE IF b.agentResponse.action = <<>>
       THEN [st |-> after, rq |-> Respond(rq, 500, [error |-> "Internal server error"])]
       ELSE [st |-> after,
             rq |-> Respond(rq, 200,
                            [sessionId |-> b.sessionId,
                             action |-> b.responseAction[1],
                             state |-> [state |-> updates.state,
                                        iteration |-> updates.iteration,
                                        sessionActive |-> updates.sessionActive,
                                        goalPreviewId |-> updates.goalPreviewId],
                             context |-> updates.context])]

\* variant: the iteration restarts when the engine supplies none
MessageUpdateResettingIteration(st, rq) ==
    LET b == rq.locals
        state == b.agentResponse.state
        updates ==
            [state |-> Coalesce(OptProp(state, "state"), <<b.session.state>>)[1],
             iteration |-> Coalesce(OptProp(state, "iteration"), <<0>>)[1],
             goalPreviewId |-> Coalesce(OptProp(state, "goalPreviewId"), b.goalPreviewId),
             sessionActive |-> b.sessionActive,
             context |-> b.updatedContext]
        after == updateSession(st, b.sessionId, updates)
    IN IF updates.iteration > MaxIteration THEN [st |-> st, rq |-> Block(rq)]
       ELSE IF b.agentResponse.action = <<>>
       THEN \* console.log(agentResponse.action.payload?.goalPreview) throws
            [st |-> after, rq |-> Respond(rq, 500, [error |-> "Internal server error"])]
       ELSE [st |-> after,
             rq |-> Respond(rq, 200,
                            [sessionId |-> b.sessionId,
                             action |-> b.responseAction[1],
                             state |-> [state |-> updates.state,
                                        iteration |-> updates.iteration,
                                        sessionActive |-> updates.sessionActive,
                                        goalPreviewId |-> updates.goalPreviewId],
                             context |-> updates.context])]

\* lines 1129-1150: the session update and the response
MessageUpdate(st, rq) ==
    LET b == rq.locals
        state == b.agentResponse.state
        updates ==
            [state |-> Coalesce(OptProp(state, "state"), <<b.session.state>>)[1],
             iteration |-> Coalesce(OptProp(state, "iteration"),
                                    <<b.session.iteration + 1>>)[1],
             goalPreviewId |-> Coalesce(OptProp(state, "goalPreviewId"), b.goalPreviewId),
             sessionActive |-> b.sessionActive,
             context |-> b.updatedContext]
        after == updateSession(st, b.sessionId, updates)
    IN IF updates.iteration > MaxIteration THEN [st |-> st, rq |-> Block(rq)]
       ELSE IF b.agentResponse.action = <<>>
       THEN \* console.log(agentResponse.action.payload?.goalPreview) throws
            [st |-> after, rq |-> Respond(rq, 500, [error |-> "Internal server error"])]
       ELSE [st |-> after,
             rq |-> Respond(rq, 200,
                            [sessionId |-> b.sessionId,
                             action |-> b.responseAction[1],
                             state |-> [state |-> updates.state,
                                        iteration |-> updates.iteration,
                                        sessionActive |-> updates.sessionActive,
                                        goalPreviewId |-> updates.goalPreviewId],
                             context |-> updates.context])]

\* lines 1095-1110: the save_preview branch
MessageSavePreview(st, rq) ==
    LET b == rq.locals
        payload == actionPayload(rq)
        preview == extractPreviewPayload(payload)
        upserted == upsertGoalPreview(st, [id |-> preview.id, userId |-> rq.user,
                                           sessionId |-> b.sessionId,
                                           data |-> preview.data])
    IN IF preview.id = <<>> /\ FreePreviewIds(st) = {}
       THEN [st |-> st, rq |-> Block(rq)]
       ELSE [st |-> upserted.st,
             rq |-> [rq EXCEPT
                       !.pc = "updateSession",
                       !.locals.goalPreviewId = <<upserted.id>>,
                       !.locals.responseAction =
                           <<With(b.responseAction[1], "payload",
                                  With(payload, "goalPreviewId", upserted.id))>>]]

\* variant: a plan over capacity is refused and the session is closed
MessageFinalizeCheckClosing(st, rq) ==
    LET b == rq.locals
        plan == resolvePlan(st, actionPayload(rq))
    IN IF finalizeExceeds(st, b.userRec, rq.user, plan)
       THEN [st |-> [st EXCEPT !.sessions[b.sessionId].sessionActive = FALSE],
             rq |-> Respond(rq, 409,
                            [error |-> "capacity",
                             availableHoursPerWeek |-> b.userRec.availableHoursPerWeek,
                             requiredHoursPerWeek |->
                                 sumActiveGoalHours(st.goals, rq.user, NoId)
                                 + plan.planHours])]
       ELSE [st |-> st, rq |-> [rq EXCEPT !.pc = "finalizeCommit", !.locals.plan = plan]]

\* lines 1111-1113 with 334-371: the finalize_goal branch up to the capacity
\* re-validation, made with the user record read before the engine call
MessageFinalizeCheck(st, rq) ==
    LET b == rq.locals
        plan == resolvePlan(st, actionPayload(rq))
    IN IF finalizeExceeds(st, b.userRec, rq.user, plan)
       THEN [st |-> st,
             rq |-> Respond(rq, 409,
                            [error |-> "capacity",
                             availableHoursPerWeek |-> b.userRec.availableHoursPerWeek,
                             requiredHoursPerWeek |->
                                 sumActiveGoalHours(st.goals, rq.user, NoId)
                                 + plan.planHours])]
       ELSE [st |-> st, rq |-> [rq EXCEPT !.pc = "finalizeCommit", !.locals.plan = plan]]

\* variant: sessionActive is left as the engine's state or the session had it
MessageFinalizeCommitKeepingActive(st, rq, policy) ==
    LET b == rq.locals
        payload == actionPayload(rq)
        committed == finalizeCommit(st, rq.user, b.plan, policy)
        goalPreviewId == Coalesce(b.plan.previewId, b.goalPreviewId)
    IN IF ~finalizeFits(st, b.plan) THEN [st |-> st, rq |-> Block(rq)]
       ELSE IF ~committed.ok
       THEN [st |-> st, rq |-> Respond(rq, 500, [error |-> "Internal server error"])]
       ELSE [st |-> committed.st,
             rq |-> [rq EXCEPT
                       !.pc = "updateSession",
                       !.locals.goalPreviewId = goalPreviewId,
                       !.locals.responseAction =
                           <<With(b.responseAction[1], "payload",
                                  With(With(With(With(payload,
                                       "goalId", committed.goalId),
                                       "milestoneIds", committed.milestoneIds),
                                       "taskIds", committed.taskIds),
                                       "goalPreviewId",
                                       IF goalPreviewId = <<>> THEN "null"
                                       ELSE goalPreviewId[1]))>>,
                       !.locals.updatedContext =
                           buildUserContext(committed.st, rq.user, b.userRec)]]

\* lines 1113-1127 with 373-435: the records of the plan are written and the
\* locals of the session update are set
MessageFinalizeCommit(st, rq, policy) ==
    LET b == rq.locals
        payload == actionPayload(rq)
        committed == finalizeCommit(st, rq.user, b.plan, policy)
        goalPreviewId == Coalesce(b.plan.previewId, b.goalPreviewId)
    IN IF ~finalizeFits(st, b.plan) THEN [st |-> st, rq |-> Block(rq)]
       ELSE IF ~committed.ok
       THEN [st |-> st, rq |-> Respond(rq, 500, [error |-> "Internal server error"])]
       ELSE [st |-> committed.st,
             rq |-> [rq EXCEPT
                       !.pc = "updateSession",
                       !.locals.goalPreviewId = goalPreviewId,
                       !.locals.sessionActive = FALSE,
                       !.locals.responseAction =
                           <<With(b.responseAction[1], "payload",
                                  With(With(With(With(payload,
                                       "goalId", committed.goalId),
                                       "milestoneIds", committed.milestoneIds),
                                       "taskIds", committed.taskIds),
                                       "goalPreviewId",
                                       IF goalPreviewId = <<>> THEN "null"
                                       ELSE goalPreviewId[1]))>>,
                       !.locals.updatedContext =
                           buildUserContext(committed.st, rq.user, b.userRec)]]

\* variant: a failed run call is repeated once before the message fails
MessageStepRetrying(st, rq, env) ==
    LET b == rq.locals
        sid == b.sessionId
        bootstrapError == initRemoteSession(env.bootstrap)
        runError == invokeAgentService(env.run)
    IN CASE rq.pc = "start" -> [st |-> st, rq |-> MessageStart(st, rq)]
         [] rq.pc = "load" -> [st |-> st, rq |-> MessageLoad(st, rq)]
         [] rq.pc = "appendUser" ->
              IF Len(st.chat[sid]) >= MaxChat THEN [st |-> st, rq |-> Block(rq)]
              ELSE [st |-> appendChatMessage(st, sid, "user", b.message),
                    rq |-> Goto(rq, IF b.shouldInitRemoteSession THEN "bootstrap" ELSE "run")]
         [] rq.pc = "bootstrap" ->
              [st |-> [st EXCEPT !.bootstrapCalls[sid] = @ + 1],
               rq |-> IF bootstrapError # <<>>
                      THEN Respond(rq, bootstrapError[1], [error |-> "agent service"])
                      ELSE Goto(rq, "run")]
         [] rq.pc = "run" ->
              [st |-> [st EXCEPT !.runCalls[sid] = @ + (IF runError # <<>> THEN 2 ELSE 1)],
               rq |-> IF runError # <<>>
                      THEN Respond(rq, runError[1], [error |-> "agent service"])
                      ELSE [rq EXCEPT !.pc = "appendAgent",
                                      !.locals.agentResponse = env.response]]
         [] rq.pc = "appendAgent" ->
              IF Len(st.chat[sid]) >= MaxChat THEN [st |-> st, rq |-> Block(rq)]
              ELSE [st |-> appendChatMessage(st, sid, "agent", b.agentResponse.reply),
                    rq |-> MessageLocals(rq, b.agentResponse)]
         [] rq.pc = "savePreview" -> MessageSavePreview(st, rq)
         [] rq.pc = "finalizeCheck" -> MessageFinalizeCheck(st, rq)
         [] rq.pc = "finalizeCommit" ->
              LET interrupted == finalizeInterrupted(st, rq.user, b.plan, env.policy,
                                                     env.storeFailure)
              IN IF /\ env.storeFailure # "none"
                    /\ finalizeFits(st, b.plan)
                    /\ interrupted # <<>>
                 THEN [st |-> interrupted[1],
                       rq |-> Respond(rq, 500, [error |-> "Internal server error"])]
                 ELSE MessageFinalizeCommit(st, rq, env.policy)
         [] rq.pc = "updateSession" -> MessageUpdate(st, rq)

\* variant: the user's message is stored with the reply, after the engine answered
MessageStepAppendingLate(st, rq, env) ==
    LET b == rq.locals
        sid == b.sessionId
        bootstrapError == initRemoteSession(env.bootstrap)
        runError == invokeAgentService(env.run)
    IN CASE rq.pc = "start" -> [st |-> st, rq |-> MessageStart(st, rq)]
         [] rq.pc = "load" -> [st |-> st, rq |-> MessageLoad(st, rq)]
         [] rq.pc = "appendUser" ->
              IF Len(st.chat[sid]) >= MaxChat THEN [st |-> st, rq |-> Block(rq)]
              ELSE [st |-> st,
                    rq |-> Goto(rq, IF b.shouldInitRemoteSession THEN "bootstrap" ELSE "run")]
         [] rq.pc = "bootstrap" ->
              [st |-> [st EXCEPT !.bootstrapCalls[sid] = @ + 1],
               rq |-> IF bootstrapError # <<>>
                      THEN Respond(rq, bootstrapError[1], [error |-> "agent service"])
                      ELSE Goto(rq, "run")]
         [] rq.pc = "run" ->
              [st |-> [st EXCEPT !.runCalls[sid] = @ + 1],
               rq |-> IF runError # <<>>
                      THEN Respond(rq, runError[1], [error |-> "agent service"])
                      ELSE [rq EXCEPT !.pc = "appendAgent",
                                      !.locals.agentResponse = env.response]]
         [] rq.pc = "appendAgent" ->
              IF Len(st.chat[sid]) + 1 >= MaxChat THEN [st |-> st, rq |-> Block(rq)]
              ELSE [st |-> appendChatMessage(appendChatMessage(st, sid, "user", b.message),
                                             sid, "agent", b.agentResponse.reply),
                    rq |-> MessageLocals(rq, b.agentResponse)]
         [] rq.pc = "savePreview" -> MessageSavePreview(st, rq)
         [] rq.pc = "finalizeCheck" -> MessageFinalizeCheck(st, rq)
         [] rq.pc = "finalizeCommit" ->
              LET interrupted == finalizeInterrupted(st, rq.user, b.plan, env.policy,
                                                     env.storeFailure)
              IN IF /\ env.storeFailure # "none"
                    /\ finalizeFits(st, b.plan)
                    /\ interrupted # <<>>
                 THEN [st |-> interrupted[1],
                       rq |-> Respond(rq, 500, [error |-> "Internal server error"])]
                 ELSE MessageFinalizeCommit(st, rq, env.policy)
         [] rq.pc = "updateSession" -> MessageUpdate(st, rq)

\* env: what the engine answers to the bootstrap and the run call of this
\* request, and the store's policy
MessageStep(st, rq, env) ==
    LET b == rq.locals
        sid == b.sessionId
        bootstrapError == initRemoteSession(env.bootstrap)
        runError == invokeAgentService(env.run)
    IN CASE rq.pc = "start" -> [st |-> st, rq |-> MessageStart(st, rq)]
         [] rq.pc = "load" -> [st |-> st, rq |-> MessageLoad(st, rq)]
         [] rq.pc = "appendUser" ->
              IF Len(st.chat[sid]) >= MaxChat THEN [st |-> st, rq |-> Block(rq)]
              ELSE [st |-> appendChatMessage(st, sid, "user", b.message),
                    rq |-> Goto(rq, IF b.shouldInitRemoteSession THEN "bootstrap" ELSE "run")]
         [] rq.pc = "bootstrap" ->
              [st |-> [st EXCEPT !.bootstrapCalls[sid] = @ + 1],
               rq |-> IF bootstrapError # <<>>
                      THEN Respond(rq, bootstrapError[1], [error |-> "agent service"])
                      ELSE Goto(rq, "run")]
         [] rq.pc = "run" ->
              [st |-> [st EXCEPT !.runCalls[sid] = @ + 1],
               rq |-> IF runError # <<>>
                      THEN Respond(rq, runError[1], [error |-> "agent service"])
                      ELSE [rq EXCEPT !.pc = "appendAgent",
                                      !.locals.agentResponse = env.response]]
         [] rq.pc = "appendAgent" ->
              IF Len(st.chat[sid]) >= MaxChat THEN [st |-> st, rq |-> Block(rq)]
              ELSE [st |-> appendChatMessage(st, sid, "agent", b.agentResponse.reply),
                    rq |-> MessageLocals(rq, b.agentResponse)]
         [] rq.pc = "savePreview" -> MessageSavePreview(st, rq)
         [] rq.pc = "finalizeCheck" -> MessageFinalizeCheck(st, rq)
         [] rq.pc = "finalizeCommit" ->
              LET interrupted == finalizeInterrupted(st, rq.user, b.plan, env.policy,
                                                     env.storeFailure)
              IN IF /\ env.storeFailure # "none"
                    /\ finalizeFits(st, b.plan)
                    /\ interrupted # <<>>
                 THEN [st |-> interrupted[1],
                       rq |-> Respond(rq, 500, [error |-> "Internal server error"])]
                 ELSE MessageFinalizeCommit(st, rq, env.policy)
         [] rq.pc = "updateSession" -> MessageUpdate(st, rq)

(***************************************************************************)
(* What the reasoning engine can answer to a run call.                     *)
(***************************************************************************)
TaskA == [date |-> "2025-11-10", estimatedHours |-> 1]

TaskB == [date |-> "2025-11-10T20:00:00-05:00", estimatedHours |-> 1, done |-> TRUE]

TaskBad == [date |-> "next week", estimatedHours |-> -1]

PlanOne == [goal |-> [minHoursPerWeek |-> 1],
            milestones |-> <<[status |-> "in_progress", tasks |-> <<TaskA>>]>>]

\* no goal hours: the hours are the sum over the tasks
PlanDup == [milestones |-> <<[tasks |-> <<TaskA, TaskA>>]>>]

PlanBad == [goal |-> [minHoursPerWeek |-> -1],
            milestones |-> <<[status |-> "later", tasks |-> <<TaskBad, TaskB>>]>>]

\* two milestones, the second with a task that is done
PlanTwo == [goal |-> [minHoursPerWeek |-> 2],
            milestones |-> <<[tasks |-> <<TaskA>>],
                             [status |-> "finished", tasks |-> <<TaskB, TaskA>>]>>]

\* more hours than any user of the model has
PlanBig == [goal |-> [minHoursPerWeek |-> MAX_AVAILABLE_HOURS + 1]]

EngineContext == [availableHoursLeft |-> 0, upcomingTasks |-> <<>>]

AgentResponse(action, state, context) ==
    [reply |-> "reply", action |-> action, state |-> state, context |-> context]

AgentResponses ==
    { AgentResponse(<<[type |-> "none"]>>, <<>>, <<>>),
      AgentResponse(<<>>, <<>>, <<>>),
      AgentResponse(<<[type |-> "none"]>>,
                    <<[state |-> "plan_iteration", iteration |-> 0, sessionActive |-> TRUE]>>,
                    <<>>),
      AgentResponse(<<[type |-> "none"]>>, <<[sessionActive |-> FALSE]>>, <<EngineContext>>),
      AgentResponse(<<[type |-> "save_preview", payload |-> PlanOne]>>, <<>>, <<>>),
      AgentResponse(<<[type |-> "finalize_goal", payload |-> PlanOne]>>, <<>>, <<>>),
      AgentResponse(<<[type |-> "finalize_goal", payload |-> PlanDup]>>,
                    <<[state |-> "finalized", sessionActive |-> TRUE]>>, <<>>),
      AgentResponse(<<[type |-> "finalize_goal", payload |-> PlanBig]>>, <<>>, <<>>) }

\* the engine's answers to one message: to the bootstrap call, to the run
\* call, and the decision carried by a 2xx answer to the run call
Envs ==
    {[bootstrap |-> 200, run |-> 200, response |-> r] : r \in AgentResponses}
    \cup {[bootstrap |-> 409, run |-> 200,
           response |-> AgentResponse(<<[type |-> "none"]>>, <<>>, <<>>)]}
    \cup {[bootstrap |-> 200, run |-> s,
           response |-> AgentResponse(<<>>, <<>>, <<>>)] : s \in EngineStatuses \ {200}}
    \cup {[bootstrap |-> s, run |-> 200,
           response |-> AgentResponse(<<>>, <<>>, <<>>)] : s \in EngineStatuses \ {200, 409}}

NoEngine == [bootstrap |-> 200, run |-> 200, response |-> AgentResponse(<<>>, <<>>, <<>>)]

(***************************************************************************)
(* One phase of any request, and a request run from its phase to its       *)
(* response without another request in between.                            *)
(***************************************************************************)
Step(st, rq, env, policy) ==
    CASE rq.op = "PATCH /v1/me" -> PatchMeStep(st, rq)
      [] rq.op = "POST /v1/goals" -> PostGoalsStep(st, rq, policy)
      [] rq.op = "PATCH /v1/goals/:goalId" -> PatchGoalStep(st, rq)
      [] rq.op = "POST /v1/goals/:goalId/milestones" -> PostMilestoneStep(st, rq)
      [] rq.op = "POST /v1/milestones/:milestoneId/tasks" -> PostTaskStep(st, rq)
      [] rq.op = "PATCH /v1/tasks/:taskId" -> PatchTaskStep(st, rq)
      [] rq.op = "POST /v1/tasks/:taskId/done" -> TaskDoneStep(st, rq)
      [] rq.op = "GET /v1/tasks/:taskId" -> GetTaskStep(st, rq)
      [] rq.op = "GET /v1/agent/goal/session:latest" -> GetLatestSessionStep(st, rq)
      [] rq.op = "POST /v1/agent/goal/session:message" ->
             MessageStep(st, rq, [bootstrap |-> env.bootstrap, run |-> env.run,
                                  response |-> env.response, policy |-> policy,
                                  storeFailure |-> IF "storeFailure" \in DOMAIN env
                                                   THEN env.storeFailure ELSE "none"])

RECURSIVE Run(_, _, _, _)
Run(st, rq, env, policy) ==
    IF rq.pc = "done" \/ rq.blocked THEN [st |-> st, rq |-> rq]
    ELSE LET r == Step(st, rq, env, policy) IN Run(r.st, r.rq, env, policy)

(***************************************************************************)
(* Initial state: the users have signed in, nothing else is stored.        *)
(***************************************************************************)
Slots == 1..MaxInflight

NoResponse == [op |-> "none", user |-> "none", input |-> <<>>, status |-> 0, body |-> <<>>]

InitStore ==
    /\ users = [u \in Users |-> [availableHoursPerWeek |-> DefaultAvailableHours]]
    /\ goals = <<>>
    /\ milestones = <<>>
    /\ tasks = <<>>
    /\ sessions = <<>>
    /\ recency = <<>>
    /\ previews = [p \in PreviewIds |-> <<>>]
    /\ chat = <<>>
    /\ bootstrapCalls = <<>>
    /\ runCalls = <<>>
    /\ requestedHours = <<>>
    /\ taskOrigin = <<>>
    /\ undefinedFieldPolicy \in {"reject", "drop"}
    /\ inflight = [s \in Slots |-> <<>>]
    /\ last = NoResponse

Operations ==
    {"PATCH /v1/me", "POST /v1/goals", "PATCH /v1/goals/:goalId",
     "POST /v1/goals/:goalId/milestones", "POST /v1/milestones/:milestoneId/tasks",
     "PATCH /v1/tasks/:taskId", "POST /v1/tasks/:taskId/done",
     "GET /v1/tasks/:taskId",
     "GET /v1/agent/goal/session:latest", "POST /v1/agent/goal/session:message"}

\* the response as the specification records it
Observe(resp) == IF resp.op \in observed THEN resp ELSE NoResponse

(***************************************************************************)
(* The requests the clients send.  u1 is the user whose records the        *)
(* requests are about; u2 is a second signed-in user.                      *)
(***************************************************************************)
HourInputs == {-1} \cup 1..MaxHours

PatchMeRequests ==
    {PatchMeRequest("u1", h) : h \in HourInputs \cup {MAX_AVAILABLE_HOURS + 1}}

PostGoalsRequests ==
    {PostGoalsRequest("u1", h) : h \in HourInputs} \cup {PostGoalsRequest("u2", 1)}

PatchGoalRequests ==
    {PatchGoalRequest(u, g, s, <<>>, FALSE) :
        u \in Users, g \in 1..MaxGoals, s \in {<<>>, <<"active">>, <<"paused">>, <<"deleted">>}}
    \cup {PatchGoalRequest("u1", g, s, <<h>>, FALSE) :
        g \in 1..MaxGoals, s \in {<<>>, <<"active">>}, h \in HourInputs}
    \cup {PatchGoalRequest("u1", g, <<>>, <<>>, TRUE) : g \in 1..MaxGoals}

PostMilestoneRequests == {PostMilestoneRequest(u, g) : u \in Users, g \in 1..MaxGoals}

PostTaskRequests ==
    {PostTaskRequest(u, m, d, 1) : u \in Users, m \in 1..MaxMilestones, d \in DateInputs}
    \cup {PostTaskRequest("u1", m, "2025-11-10", -1) : m \in 1..MaxMilestones}

PatchTaskRequests ==
    {PatchTaskRequest(u, t, <<d>>, <<>>, FALSE) :
        u \in Users, t \in 1..MaxTasks, d \in DateInputs}
    \cup {PatchTaskRequest("u1", t, <<>>, <<>>, b) : t \in 1..MaxTasks, b \in BOOLEAN}

TaskDoneRequests ==
    {TaskDoneRequest(u, t, b) : u \in Users, t \in 1..MaxTasks, b \in BOOLEAN}

GetTaskRequests == {GetTaskRequest(u, t) : u \in Users, t \in 1..MaxTasks}

GetLatestSessionRequests == {GetLatestSessionRequest(u) : u \in Users}

\* a well-formed message with no preview and no userId in the body
PlainMessage(u, s) == MessageRequest(u, s, "hello", <<>>, <<>>)

PlainMessages == {PlainMessage("u1", s) : s \in 1..MaxSessions}

\* messages with a preview or a userId in the body, blank fields, or sent by u2
OtherMessages ==
    {MessageRequest("u1", s, "hello", <<PlanOne>>, <<"u1">>) : s \in 1..MaxSessions}
    \cup {MessageRequest("u1", 1, "hello", <<>>, <<"u2">>),
          MessageRequest("u1", 1, "", <<PlanOne>>, <<>>),
          MessageRequest("u1", 0, "hello", <<>>, <<>>)}
    \cup {PlainMessage("u2", s) : s \in 1..MaxSessions}

PlainEnv == [bootstrap |-> 200, run |-> 200,
             response |-> AgentResponse(<<[type |-> "none"]>>, <<>>, <<>>)]

(***************************************************************************)
(* A request handled from arrival to response with no other request in     *)
(* between.                                                                *)
(***************************************************************************)
PlainEnvs == {PlainEnv}

Handle(rq, env) ==
    LET r == Run(Store, rq, env, undefinedFieldPolicy)
    IN /\ \A s \in Slots : inflight[s] = <<>>
       /\ ~r.rq.blocked
       /\ Commit(r.st)
       /\ last' = Observe(r.rq.resp)
       /\ UNCHANGED <<undefinedFieldPolicy, inflight, observed>>

PatchMe == \E rq \in PatchMeRequests : Handle(rq, NoEngine)

PostGoals == \E rq \in PostGoalsRequests : Handle(rq, NoEngine)

PatchGoal == \E rq \in PatchGoalRequests : Handle(rq, NoEngine)

PostMilestone == \E rq \in PostMilestoneRequests : Handle(rq, NoEngine)

PostTask == \E rq \in PostTaskRequests : Handle(rq, NoEngine)

PatchTask == \E rq \in PatchTaskRequests : Handle(rq, NoEngine)

TaskDone == \E rq \in TaskDoneRequests : Handle(rq, NoEngine)

GetTask == \E rq \in GetTaskRequests : Handle(rq, NoEngine)

GetLatestSession == \E rq \in GetLatestSessionRequests : Handle(rq, NoEngine)

Message ==
    \/ \E rq \in PlainMessages : \E env \in Envs : Handle(rq, env)
    \/ \E rq \in OtherMessages : Handle(rq, PlainEnv)

\* u1 opens the planning session
OpenSessionRequest == GetLatestSessionRequest("u1")

OpenSession == Handle(OpenSessionRequest, NoEngine)

\* a message whose exchange ends in a finalize_goal decision of the engine
Finalize ==
    \E rq \in PlainMessages :
        \E env \in {e \in Envs : OptProp(e.response.action, "type") = <<"finalize_goal">>} :
            Handle(rq, env)

(***************************************************************************)
(* Specifications.  Each one serves the requests of one part of the        *)
(* program, one request at a time.                                         *)
(***************************************************************************)
\* the Conversation Orchestrator
Next ==
    \/ GetLatestSession
    \/ Message

Init == InitStore /\ observed = Operations

Spec == Init /\ [][Next]_vars

\* the Capacity Ledger
NextLedger ==
    \/ PatchMe
    \/ PostGoals
    \/ PatchGoal
    \/ OpenSession
    \/ Finalize

InitLedger ==
    InitStore /\ observed = {"POST /v1/goals"}

SpecLedger == InitLedger /\ [][NextLedger]_vars

\* the Task Scheduler
NextTasks ==
    \/ PostGoals
    \/ PostMilestone
    \/ PostTask
    \/ PatchTask
    \/ OpenSession
    \/ Finalize

InitTasks == InitStore /\ observed = {}

SpecTasks == InitTasks /\ [][NextTasks]_vars

\* the Conflict Checker, with the responses of the task routes
NextSchedule ==
    \/ PostGoals
    \/ PostMilestone
    \/ PostTask
    \/ PatchTask

InitSchedule ==
    InitStore /\ observed = {"POST /v1/milestones/:milestoneId/tasks",
                             "PATCH /v1/tasks/:taskId"}

SpecSchedule == InitSchedule /\ [][NextSchedule]_vars

\* the Ownership Guard: the requests of both users on the goals, milestones and
\* tasks, every response recorded
OwnedRequests ==
    {PostGoalsRequest(u, 1) : u \in Users}
    \cup {PatchGoalRequest(u, g, <<"paused">>, <<>>, FALSE) : u \in Users, g \in 1..MaxGoals}
    \cup {PostMilestoneRequest(u, g) : u \in Users, g \in 1..MaxGoals}
    \cup {PostTaskRequest(u, m, "2025-11-10", 1) : u \in Users, m \in 1..MaxMilestones}
    \cup {PatchTaskRequest(u, t, <<>>, <<>>, TRUE) : u \in Users, t \in 1..MaxTasks}

ServeOwned(op) == \E rq \in {r \in OwnedRequests : r.op = op} : Handle(rq, NoEngine)

NextOwnership ==
    \/ ServeOwned("POST /v1/goals")
    \/ ServeOwned("PATCH /v1/goals/:goalId")
    \/ ServeOwned("POST /v1/goals/:goalId/milestones")
    \/ ServeOwned("POST /v1/milestones/:milestoneId/tasks")
    \/ ServeOwned("PATCH /v1/tasks/:taskId")
    \/ TaskDone
    \/ GetTask

InitOwnership == InitStore /\ observed = Operations

SpecOwnership == InitOwnership /\ [][NextOwnership]_vars

(***************************************************************************)
(* Requests handled concurrently: the server awaits each store or engine   *)
(* call, and between two awaited calls of one request the phases of        *)
(* another request may run.                                                *)
(***************************************************************************)
FreeSlots == {s \in Slots : inflight[s] = <<>>}

\* a request arrives and waits for its first phase
Arrive(rq) ==
    /\ FreeSlots # {}
    /\ inflight' = [inflight EXCEPT ![CHOOSE s \in FreeSlots : \A t \in FreeSlots : s <= t]
                                        = <<rq>>]
    /\ UNCHANGED <<storeVars, undefinedFieldPolicy, observed, last>>

\* the answers of the engine, and the outcomes of the store's writes, that
\* matter to the phase the request is about to run
EnvsAt(rq, envs) ==
    IF rq.op = "POST /v1/agent/goal/session:message" /\ rq.pc \in {"bootstrap", "run"}
    THEN envs
    ELSE IF rq.op = "POST /v1/agent/goal/session:message" /\ rq.pc = "finalizeCommit"
    THEN PlainEnvs \cup {e \in envs : "storeFailure" \in DOMAIN e}
    ELSE PlainEnvs

\* the request in slot s runs its next phase; its response leaves the slot free
ProceedSlot(s, envs) ==
    /\ inflight[s] # <<>>
    /\ \E env \in EnvsAt(inflight[s][1], envs) :
          LET r == Step(Store, inflight[s][1], env, undefinedFieldPolicy)
          IN /\ ~r.rq.blocked
             /\ Commit(r.st)
             /\ IF r.rq.pc = "done"
                THEN /\ inflight' = [inflight EXCEPT ![s] = <<>>]
                     /\ last' = Observe(r.rq.resp)
                ELSE /\ inflight' = [inflight EXCEPT ![s] = <<r.rq>>]
                     /\ UNCHANGED last
    /\ UNCHANGED <<undefinedFieldPolicy, observed>>

\* the engine's answers in the concurrent specification
ConcEnvs ==
    {e \in Envs : /\ e.bootstrap \in {200, 500}
                  /\ e.run \in {200, 503}
                  /\ e.response.context = <<>>
                  /\ e.response.state = <<>>
                  /\ OptProp(e.response.action, "payload") \in {<<>>, <<PlanOne>>, <<PlanBig>>}}

\* messages of u1 on the first session
FirstSessionMessage == PlainMessage("u1", 1)

ArriveMessage == Arrive(FirstSessionMessage)

ProceedMessage == \E s \in Slots : ProceedSlot(s, ConcEnvs)

\* concurrent messages of u1
NextConc ==
    \/ OpenSession
    \/ ArriveMessage
    \/ ProceedMessage

InitConc == InitStore /\ observed = {"POST /v1/agent/goal/session:message"}

SpecConc == InitConc /\ [][NextConc]_vars

\* the engine's answers that propose a preview: with no id, with the id in the
\* payload, with the id in the nested preview, and with a goalPreviewId in the
\* returned state
PreviewEnvs ==
    {[bootstrap |-> 200, run |-> 200, response |-> r] :
        r \in {AgentResponse(<<[type |-> "none"]>>, <<>>, <<>>),
               AgentResponse(<<[type |-> "save_preview", payload |-> PlanOne]>>, <<>>, <<>>),
               AgentResponse(<<[type |-> "save_preview",
                                payload |-> [goalPreviewId |-> "p2",
                                             goalPreview |-> PlanOne]]>>, <<>>, <<>>),
               AgentResponse(<<[type |-> "save_preview",
                                payload |-> [goalPreview |-> [id |-> "p1"]]]>>,
                             <<>>, <<>>),
               AgentResponse(<<[type |-> "save_preview", payload |-> PlanOne]>>,
                             <<[goalPreviewId |-> "p2"]>>, <<>>)}}

ProceedPreview == \E s \in Slots : ProceedSlot(s, PreviewEnvs)

\* messages of u1 answered with previews
NextPreview ==
    \/ OpenSession
    \/ ArriveMessage
    \/ ProceedPreview

InitPreview == InitStore /\ observed = {"POST /v1/agent/goal/session:message"}

SpecPreview == InitPreview /\ [][NextPreview]_vars

\* the engine's answers with and without an iteration in the returned state
ExchangeEnvs ==
    {[bootstrap |-> 200, run |-> 200, response |-> r] :
        r \in {AgentResponse(<<[type |-> "none"]>>, <<>>, <<>>),
               AgentResponse(<<[type |-> "none"]>>, <<[state |-> "draft"]>>, <<>>),
               AgentResponse(<<[type |-> "none"]>>, <<[iteration |-> 0]>>, <<>>),
               AgentResponse(<<[type |-> "none"]>>, <<[iteration |-> MaxIteration]>>, <<>>),
               AgentResponse(<<[type |-> "save_preview", payload |-> PlanOne]>>,
                             <<>>, <<>>),
               AgentResponse(<<[type |-> "save_preview", payload |-> PlanOne]>>,
                             <<[state |-> "draft"]>>, <<>>)}}
    \cup {[bootstrap |-> 200, run |-> s, response |-> AgentResponse(<<>>, <<>>, <<>>)] :
             s \in EngineStatuses \ {200}}

\* a message of u1 arrives while no request is being served
ArriveAlone ==
    /\ \A s \in Slots : inflight[s] = <<>>
    /\ \E rq \in PlainMessages : Arrive(rq)

ProceedExchange == \E s \in Slots : ProceedSlot(s, ExchangeEnvs)

\* messages of u1 served one after the other, phase by phase
NextExchange ==
    \/ OpenSession
    \/ ArriveAlone
    \/ ProceedExchange

InitExchange == InitStore /\ observed = {"POST /v1/agent/goal/session:message"}

SpecExchange == InitExchange /\ [][NextExchange]_vars

\* the engine never answers 2xx to the bootstrap call: it answers 409 (the
\* remote session exists), another error status, or not at all
BootstrapEnvs ==
    {[bootstrap |-> s, run |-> 200, response |-> r] :
        s \in EngineStatuses \ {200},
        r \in {AgentResponse(<<[type |-> "none"]>>, <<>>, <<>>),
               AgentResponse(<<[type |-> "none"]>>, <<[iteration |-> 0]>>, <<>>)}}

\* messages of u1 whose bootstrap call is not answered with 2xx
NextBootstrap ==
    \/ OpenSession
    \/ ArriveAlone
    \/ \E s \in Slots : ProceedSlot(s, BootstrapEnvs)

InitBootstrap == InitStore /\ observed = {"POST /v1/agent/goal/session:message"}

SpecBootstrap == InitBootstrap /\ [][NextBootstrap]_vars

\* concurrent get-or-create-latest-session and message requests of u1
NextOpen ==
    \/ Arrive(OpenSessionRequest)
    \/ ArriveMessage
    \/ ProceedMessage

InitOpen == InitStore /\ observed = {"GET /v1/agent/goal/session:latest"}

SpecOpen == InitOpen /\ [][NextOpen]_vars

\* the engine decides to finalize, and a write of the commit can throw
FailureEnvs ==
    {[bootstrap |-> 200, run |-> 200, response |-> r, storeFailure |-> f] :
        r \in {AgentResponse(<<[type |-> "none"]>>, <<>>, <<>>),
               AgentResponse(<<[type |-> "finalize_goal", payload |-> PlanOne]>>,
                             <<>>, <<>>)},
        f \in {"none", "milestone", "task"}}

\* messages of u1 served one after the other while store writes can fail
NextFailure ==
    \/ OpenSession
    \/ ArriveAlone
    \/ \E s \in Slots : ProceedSlot(s, FailureEnvs)

InitFailure == InitStore /\ observed = {"POST /v1/agent/goal/session:message"}

SpecFailure == InitFailure /\ [][NextFailure]_vars

\* concurrent capacity-affecting requests of u1
CapacityRequests ==
    {PatchMeRequest("u1", h) : h \in 1..MaxHours}
    \cup {PostGoalsRequest("u1", h) : h \in 1..MaxHours}
    \cup {PatchGoalRequest("u1", g, <<s>>, <<>>, FALSE) :
            g \in 1..MaxGoals, s \in {"active", "paused"}}
    \cup {PatchGoalRequest("u1", g, <<>>, <<h>>, FALSE) : g \in 1..MaxGoals, h \in 1..MaxHours}

ArriveCapacity == \E rq \in CapacityRequests : Arrive(rq)

ProceedCapacity == \E s \in Slots : ProceedSlot(s, PlainEnvs)

NextRace ==
    \/ ArriveCapacity
    \/ ProceedCapacity

InitRace == InitStore /\ observed = {}

SpecRace == InitRace /\ [][NextRace]_vars

\* the shapes of a finalize_goal payload: the plan as the payload itself, as an
\* embedded plan or goalPreview, named by the id of a stored preview, malformed,
\* or missing
CommitPayloads ==
    {PlanOne, PlanDup, PlanBad, PlanTwo, PlanBig, <<>>,
     [milestones |-> <<[tasks |-> <<TaskBad, TaskB, [date |-> "2025-11-11"]>>]>>],
     [plan |-> PlanOne],
     [goalPreview |-> PlanDup, plan |-> PlanOne],
     [goalPreview |-> <<>>, plan |-> PlanOne],
     [goalPreviewId |-> "p1"],
     [goalPreviewId |-> "p1", plan |-> PlanDup],
     [goalPreview |-> [id |-> "p1"]]}

CommitEnvs ==
    {[bootstrap |-> 200, run |-> 200, response |-> r] :
        r \in {AgentResponse(<<[type |-> "none"]>>, <<>>, <<>>),
               AgentResponse(<<[type |-> "save_preview", payload |-> PlanOne]>>, <<>>, <<>>),
               AgentResponse(<<[type |-> "finalize_goal", payload |-> PlanOne]>>,
                             <<>>, <<EngineContext>>)}
           \cup {AgentResponse(<<[type |-> "finalize_goal", payload |-> c]>>, <<>>, <<>>) :
                    c \in CommitPayloads}}

ProceedCommit == \E s \in Slots : ProceedSlot(s, CommitEnvs)

\* the Finalization Committer: messages of u1 served one after the other
NextCommit ==
    \/ OpenSession
    \/ ArriveAlone
    \/ ProceedCommit

InitCommit == InitStore /\ observed = {"POST /v1/agent/goal/session:message"}

SpecCommit == InitCommit /\ [][NextCommit]_vars

\* messages with and without a preview in the body, and the engine's answers
\* that leave a preview or a context of the engine's in the session
ForwardMessages ==
    PlainMessages
    \cup {MessageRequest("u1", s, "hello", <<c>>, <<>>) :
             s \in 1..MaxSessions, c \in {PlanDup, <<>>}}

ForwardEnvs ==
    {[bootstrap |-> 200, run |-> 200, response |-> r] :
        r \in {AgentResponse(<<[type |-> "none"]>>, <<>>, <<>>),
               AgentResponse(<<[type |-> "none"]>>, <<>>, <<EngineContext>>),
               AgentResponse(<<[type |-> "save_preview", payload |-> PlanOne]>>,
                             <<>>, <<EngineContext>>),
               AgentResponse(<<[type |-> "finalize_goal", payload |-> PlanOne]>>,
                             <<>>, <<>>)}}

\* the Conversation Orchestrator, seen at the run call of each message
NextForward ==
    \/ OpenSession
    \/ /\ \A s \in Slots : inflight[s] = <<>>
       /\ \E rq \in ForwardMessages : Arrive(rq)
    \/ \E s \in Slots : ProceedSlot(s, ForwardEnvs)

InitForward == InitStore /\ observed = {"POST /v1/agent/goal/session:message"}

SpecForward == InitForward /\ [][NextForward]_vars

\* the profile updates and the engine's answers that meet at a finalization
BudgetRequests == {PatchMeRequest("u1", h) : h \in 1..MaxHours}

FreshEnvs ==
    {[bootstrap |-> 200, run |-> 200, response |-> r] :
        r \in {AgentResponse(<<[type |-> "none"]>>, <<>>, <<>>),
               AgentResponse(<<[type |-> "finalize_goal", payload |-> PlanOne]>>, <<>>, <<>>),
               AgentResponse(<<[type |-> "finalize_goal", payload |-> PlanDup]>>, <<>>, <<>>)}}

\* a message of u1 served while u1 updates the profile
NextFresh ==
    \/ OpenSession
    \/ ArriveMessage
    \/ \E rq \in BudgetRequests : Arrive(rq)
    \/ \E s \in Slots : ProceedSlot(s, FreshEnvs)

InitFresh == InitStore /\ observed = {"POST /v1/agent/goal/session:message"}

SpecFresh == InitFresh /\ [][NextFresh]_vars

(***************************************************************************)
(* Properties.                                                             *)
(***************************************************************************)
MessageOp == "POST /v1/agent/goal/session:message"

PostGoalsOp == "POST /v1/goals"

\* the weekly hours the handlers accepted for the active goals of a user
RECURSIVE CommittedHoursUpTo(_, _, _, _)
CommittedHoursUpTo(g, hours, n, userId) ==
    IF n = 0 THEN 0
    ELSE CommittedHoursUpTo(g, hours, n - 1, userId)
         + (IF g[n].userId = userId /\ g[n].status = "active" THEN hours[n] ELSE 0)

CommittedHours(g, hours, userId) == CommittedHoursUpTo(g, hours, Len(g), userId)

WithinCapacity(g, hours, us) ==
    \A u \in Users : CommittedHours(g, hours, u) <= us[u].availableHoursPerWeek

\* C1: after any sequence of completed goal creations, goal updates and plan
\* finalizations, the weekly hours of a user's active goals sum to at most the
\* user's availableHoursPerWeek.
CapacityInvariant == WithinCapacity(goals, requestedHours, users)

\* C2: no step of a capacity-affecting request, run between the phases of
\* another one, takes the weekly hours of a user's active goals above the
\* user's availableHoursPerWeek.
CapacityKeptUnderInterleaving ==
    [][WithinCapacity(goals, requestedHours, users)
         => WithinCapacity(goals', requestedHours', users')]_vars

\* C10: a direct goal creation with valid hours is answered 409 exactly when the
\* hours of the user's active goals plus the new goal's hours exceed
\* availableHoursPerWeek; the 409 carries that total and creates no goal; a
\* total up to the budget is answered 201.
DirectCreationRejectedExactlyWhenOver ==
    [][(last'.op = PostGoalsOp /\ last'.input.minHoursPerWeek >= 0) =>
          LET u == last'.user
              total == CommittedHours(goals, requestedHours, u)
                       + last'.input.minHoursPerWeek
          IN IF total > users[u].availableHoursPerWeek
             THEN /\ last'.status = 409
                  /\ last'.body.requiredHoursPerWeek = total
                  /\ goals' = goals
             ELSE last'.status = 201]_vars

\* two different tasks of one user under one milestone on one date
SameDay(ts, i, j) ==
    /\ i # j
    /\ ts[i].milestoneId = ts[j].milestoneId
    /\ ts[i].userId = ts[j].userId
    /\ ts[i].date = ts[j].date

\* C3 as stated: no two tasks under the same milestone and the same user have
\* the same date.
NoTwoTasksShareDate ==
    \A i \in DOMAIN tasks : \A j \in DOMAIN tasks : ~SameDay(tasks, i, j)

\* C3: two tasks under the same milestone and the same user have the same
\* date only when both were created by a plan finalization; task creation and
\* task date updates through the API never produce such a pair.
SharedDateOnlyFromFinalization ==
    \A i \in DOMAIN tasks : \A j \in DOMAIN tasks :
        SameDay(tasks, i, j) => taskOrigin[i] = "finalize" /\ taskOrigin[j] = "finalize"

\* a finalization has stored two tasks on one date under its milestone, next to
\* a task created through the API
SharedDateWitness ==
    /\ \E i \in DOMAIN tasks : \E j \in DOMAIN tasks : SameDay(tasks, i, j)
    /\ \E k \in DOMAIN tasks : taskOrigin[k] = "api"

\* the step is the response to a message sent to a session that was not active
MessageToInactive ==
    /\ last'.op = MessageOp
    /\ last'.input.sessionId \in DOMAIN sessions
    /\ ~sessions[last'.input.sessionId].sessionActive

IsPrefix(a, b) == Len(a) <= Len(b) /\ SubSeq(b, 1, Len(a)) = a

UserMessages(c) == Cardinality({i \in DOMAIN c : c[i].sender = "user"})

\* the requests in flight on session s that are past the authorization
PastStart(s) ==
    {k \in Slots : /\ inflight[k] # <<>>
                   /\ inflight[k][1].locals.sessionId = s
                   /\ inflight[k][1].pc # "start"}

\* C5 as stated: once sessionActive is false for a session, no operation sets
\* it back to true.
NeverReactivated ==
    [][\A s \in DOMAIN sessions :
          ~sessions[s].sessionActive => ~sessions'[s].sessionActive]_vars

\* C5: a message passes the authorization only while its session is active,
\* and once sessionActive is false for a session with no such message still in
\* flight, no operation sets it back to true; only a message that was already
\* past the authorization when the session was closed can write it back.
NeverReactivatedAfterQuiescence ==
    [][\A s \in DOMAIN sessions :
          /\ (~sessions[s].sessionActive /\ PastStart(s) = {})
                => ~sessions'[s].sessionActive
          /\ \A k \in Slots :
                (/\ inflight[k] # <<>>
                 /\ inflight[k][1].locals.sessionId = s
                 /\ inflight[k][1].pc = "start"
                 /\ inflight'[k] # <<>>
                 /\ inflight'[k][1].pc # "start")
                    => sessions[s].sessionActive]_vars

\* a session closed by a completed exchange has refused a later message and is
\* still closed
StillClosedWitness ==
    /\ last.op = MessageOp
    /\ last.status = 409
    /\ \E s \in DOMAIN sessions : /\ last.input.sessionId = s
                                  /\ ~sessions[s].sessionActive
                                  /\ sessions[s].iteration >= 1
                                  /\ PastStart(s) = {}

\* C6: the user's chat message is stored before any call to the planning
\* engine and is never removed: the transcript only grows, every engine call
\* of a session is preceded by the append of its user message, and a request
\* that ends after the authorization, with whatever status, leaves its
\* message in the transcript.
UserMessageDurable ==
    [][\A s \in DOMAIN sessions :
          /\ IsPrefix(chat[s], chat'[s])
          /\ bootstrapCalls'[s] > bootstrapCalls[s]
                => bootstrapCalls'[s] <= UserMessages(chat[s])
          /\ runCalls'[s] > runCalls[s] => runCalls'[s] <= UserMessages(chat[s])
          /\ \A k \in PastStart(s) :
                inflight'[k] = <<>> =>
                    \E i \in DOMAIN chat'[s] :
                        /\ chat'[s][i].sender = "user"
                        /\ chat'[s][i].message = inflight[k][1].locals.message]_vars

\* the engine call failed, the request was answered with the engine's error
\* and the transcript ends with the user's message
UserMessageKeptWitness ==
    /\ last.op = MessageOp
    /\ last.status = 503
    /\ \E s \in DOMAIN sessions :
          /\ last.input.sessionId = s
          /\ Len(chat[s]) >= 1
          /\ chat[s][Len(chat[s])].sender = "user"
          /\ runCalls[s] >= 1

\* the step is the response of a message that was refused for capacity
CapacityConflict ==
    /\ last'.op = MessageOp
    /\ last'.status = 409
    /\ last'.body.error = "capacity"

\* C7: when a finalize_goal action fails the capacity re-validation, the
\* message is answered with the capacity conflict, no Goal, Milestone or Task
\* record is created and the session stays active with its state, iteration
\* and goalPreviewId unchanged.
CapacityConflictLeavesSession ==
    [][CapacityConflict =>
          LET sid == last'.input.sessionId
          IN /\ goals' = goals
             /\ milestones' = milestones
             /\ tasks' = tasks
             /\ sessions[sid].sessionActive
             /\ sessions'[sid] = sessions[sid]
             /\ last'.body.requiredHoursPerWeek > last'.body.availableHoursPerWeek]_vars

\* a finalization was refused for capacity and its session is still active
\* with no record of the plan stored
CapacityConflictWitness ==
    /\ last.op = MessageOp
    /\ last.status = 409
    /\ last.body.error = "capacity"
    /\ sessions[last.input.sessionId].sessionActive
    /\ goals = <<>>
    /\ milestones = <<>>
    /\ tasks = <<>>

\* C8: whenever a finalize_goal action is committed, the session is stored
\* with sessionActive=false, also when the state returned by the engine says
\* sessionActive=true.
FinalizeClosesSession ==
    [][(last'.op = MessageOp /\ Len(goals') > Len(goals))
          => /\ last'.status = 200
             /\ ~sessions'[last'.input.sessionId].sessionActive]_vars

\* a plan was committed on an answer of the engine whose state said
\* sessionActive=true, and the session is closed
FinalizeClosesWitness ==
    /\ last.op = MessageOp
    /\ last.status = 200
    /\ last.body.action.type = "finalize_goal"
    /\ last.body.state.state = "finalized"
    /\ goals # <<>>
    /\ ~sessions[last.input.sessionId].sessionActive

\* C9 as stated: over the life of a session the bootstrap call is issued
\* exactly once, on the first message.
BootstrapIssuedOnce ==
    \A s \in DOMAIN sessions : bootstrapCalls[s] <= 1

\* C9: a message that passes the authorization issues the bootstrap call
\* exactly when the stored iteration of its session is 0 at entry, and no
\* other request issues it; so it is issued again by a later message when the
\* first exchange failed before the session update or when the engine's
\* state gave iteration 0.
BootstrapWhenIterationZero ==
    [][\A s \in DOMAIN sessions :
          bootstrapCalls'[s] =
              bootstrapCalls[s]
              + (IF Len(chat'[s]) > Len(chat[s]) /\ sessions[s].iteration = 0
                 THEN 1 ELSE 0)]_vars

\* a session past its first exchange has served further messages with the one
\* bootstrap call of its first message
BootstrapWitness ==
    \E s \in DOMAIN sessions :
        /\ sessions[s].iteration >= 1
        /\ bootstrapCalls[s] = 1
        /\ runCalls[s] >= 2

PostTaskOp == "POST /v1/milestones/:milestoneId/tasks"
PatchTaskOp == "PATCH /v1/tasks/:taskId"

\* milestone m exists and its goal belongs to user u
OwnsMilestone(m, u) ==
    /\ m \in DOMAIN milestones
    /\ goals[milestones[m].goalId].userId = u

\* the tasks of user u under milestone m dated d, task except left out
Colliding(m, u, d, except) ==
    {i \in DOMAIN tasks : /\ i # except
                          /\ tasks[i].milestoneId = m
                          /\ tasks[i].userId = u
                          /\ tasks[i].date = d}

RunsPhase(k, pc) ==
    /\ inflight[k] # <<>>
    /\ inflight[k][1].pc = pc
    /\ inflight'[k] # inflight[k]

\* the payload of the action the engine returned to the request rq
EnginePayload(rq) == rq.locals.agentResponse.action[1].payload

\* the preview id a save_preview payload carries: its goalPreviewId, else the
\* id of its nested goalPreview (of the payload itself when none is nested)
CarriedPreviewId(payload) ==
    IF "goalPreviewId" \in DOMAIN payload THEN <<payload.goalPreviewId>>
    ELSE IF "goalPreview" \in DOMAIN payload
         THEN (IF "id" \in DOMAIN payload.goalPreview
               THEN <<payload.goalPreview.id>> ELSE <<>>)
    ELSE IF "id" \in DOMAIN payload THEN <<payload.id>> ELSE <<>>

\* the save_preview exchange of slot k ends with a success in this step
SavePreviewEnds(k) ==
    /\ RunsPhase(k, "updateSession")
    /\ inflight'[k] = <<>>
    /\ last'.status = 200
    /\ last'.body.action.type = "save_preview"

\* C12 as stated: after a save_preview exchange the persisted session's
\* goalPreviewId equals the id of the upserted preview.
SessionPointsToSavedPreview ==
    [][\A k \in Slots :
          SavePreviewEnds(k) =>
              sessions'[last'.input.sessionId].goalPreviewId
                  = inflight[k][1].locals.goalPreviewId]_vars

\* C12: in a save_preview exchange the GoalPreview is upserted under the id
\* carried by the payload, or under an id that was free when the payload
\* carries none, for the caller and the session; the goalPreviewId in the
\* response's action payload equals that id, and the persisted session's
\* goalPreviewId equals it unless the engine's returned state supplies a
\* goalPreviewId, which is then stored instead.
PreviewSavedUnderCarriedId ==
    [][\A k \in Slots :
          /\ RunsPhase(k, "savePreview") =>
                LET rq == inflight[k][1]
                    payload == EnginePayload(rq)
                    carried == CarriedPreviewId(payload)
                    id == inflight'[k][1].locals.goalPreviewId[1]
                IN /\ carried # <<>> => id = carried[1]
                   /\ carried = <<>> => previews[id] = <<>>
                   /\ previews'[id] # <<>>
                   /\ previews'[id][1].userId = rq.user
                   /\ previews'[id][1].sessionId = rq.locals.sessionId
                   /\ previews'[id][1].data =
                         (IF "goalPreview" \in DOMAIN payload
                          THEN payload.goalPreview ELSE payload)
                   /\ \A p \in PreviewIds \ {id} : previews'[p] = previews[p]
          /\ SavePreviewEnds(k) =>
                LET rq == inflight[k][1]
                    id == rq.locals.goalPreviewId
                    state == rq.locals.agentResponse.state
                IN /\ last'.body.action.payload.goalPreviewId = id[1]
                   /\ sessions'[rq.locals.sessionId].goalPreviewId =
                         (IF state # <<>> /\ "goalPreviewId" \in DOMAIN state[1]
                          THEN <<state[1].goalPreviewId>> ELSE id)
                   /\ previews' = previews]_vars

\* a preview with no id in its payload was saved under a newly allocated id
\* next to an earlier preview, and the session points to it
PreviewSavedWitness ==
    /\ last.op = MessageOp
    /\ last.status = 200
    /\ last.body.action.type = "save_preview"
    /\ "goal" \in DOMAIN last.body.action.payload
    /\ \A p \in PreviewIds : previews[p] # <<>>
    /\ sessions[last.input.sessionId].goalPreviewId
          = <<last.body.action.payload.goalPreviewId>>

\* the exchange of slot k ends with its session update in this step
ExchangeEnds(k) ==
    /\ RunsPhase(k, "updateSession")
    /\ inflight'[k] = <<>>

\* the iteration the engine's returned state supplies to the request rq
EngineIteration(rq) ==
    LET state == rq.locals.agentResponse.state
    IN IF state # <<>> /\ "iteration" \in DOMAIN state[1]
       THEN <<state[1].iteration>> ELSE <<>>

\* C13: after each successful message exchange the session's iteration equals
\* the iteration supplied in the engine's returned state when there is one,
\* and otherwise the iteration at entry plus exactly 1.
IterationAfterExchange ==
    [][\A k \in Slots :
          (ExchangeEnds(k) /\ last'.status = 200) =>
              LET rq == inflight[k][1]
                  s == rq.locals.sessionId
              IN /\ rq.locals.session.iteration = sessions[s].iteration
                 /\ sessions'[s].iteration =
                       (IF EngineIteration(rq) # <<>> THEN EngineIteration(rq)[1]
                        ELSE sessions[s].iteration + 1)
                 /\ last'.body.state.iteration = sessions'[s].iteration]_vars

\* the first exchange of a session ended with the iteration the engine
\* supplied, not with 1
IterationWitness ==
    /\ last.op = MessageOp
    /\ last.status = 200
    /\ last.body.state.iteration = MaxIteration
    /\ \E s \in DOMAIN sessions :
          /\ last.input.sessionId = s
          /\ sessions[s].iteration = MaxIteration
          /\ Len(chat[s]) = 2

\* C14 as stated: a session's iteration never decreases, whatever iteration
\* values the engine returns.
IterationNeverDecreases ==
    [][\A s \in DOMAIN sessions : sessions'[s].iteration >= sessions[s].iteration]_vars

\* C14: a session's iteration starts at 0 and, across any sequence of message
\* exchanges, decreases only in an exchange whose engine state supplies a
\* lower iteration, which is stored as supplied.
IterationDecreasesOnlyByEngine ==
    [][/\ \A s \in DOMAIN sessions' \ DOMAIN sessions : sessions'[s].iteration = 0
       /\ \A s \in DOMAIN sessions :
             sessions'[s].iteration < sessions[s].iteration =>
                 \E k \in Slots :
                     /\ ExchangeEnds(k)
                     /\ inflight[k][1].locals.sessionId = s
                     /\ EngineIteration(inflight[k][1]) = <<sessions'[s].iteration>>]_vars

\* a session went from 0 to 1 to 2 in two exchanges with no iteration in the
\* engine's state
IterationGrowsWitness ==
    \E s \in DOMAIN sessions :
        /\ sessions[s].iteration = 2
        /\ Len(chat[s]) = 4
        /\ bootstrapCalls[s] = 1

\* C15: a message-send with a valid body fails with NotFound (404) when the
\* session does not exist, with Forbidden (403) when the session belongs to
\* another user and with Conflict (409) when the session is not active,
\* checked in that order and before any side effect.
SessionErrorsByKind ==
    [][(/\ last'.op = MessageOp
        /\ last'.input.sessionId # 0
        /\ last'.input.message # ""
        /\ (last'.input.payloadUserId = <<>>
            \/ last'.input.payloadUserId[1] = last'.user))
          => LET s == last'.input.sessionId
             IN /\ s \notin DOMAIN sessions
                   => (last'.status = 404 /\ UNCHANGED storeVars)
                /\ (s \in DOMAIN sessions /\ sessions[s].userId # last'.user)
                   => (last'.status = 403 /\ UNCHANGED storeVars)
                /\ (/\ s \in DOMAIN sessions
                    /\ sessions[s].userId = last'.user
                    /\ ~sessions[s].sessionActive)
                   => (last'.status = 409 /\ UNCHANGED storeVars)]_vars

\* C16: whenever the run call to the reasoning engine fails, the engine being
\* unreachable or answering any non-2xx status, the caller receives the
\* service-unavailable error (503), never a success and never a validation or
\* conflict status.
EngineFailureIsUnavailable ==
    [][\A k \in Slots :
          (RunsPhase(k, "run") /\ inflight'[k] = <<>>) => last'.status = 503]_vars

\* C17: a profile update never sets availableHoursPerWeek below the sum of
\* the weekly hours the user's active goals were accepted with; such an
\* update is rejected and leaves the user record unchanged.
ProfileUpdateRespectsSum ==
    [][\A u \in Users :
          users'[u].availableHoursPerWeek # users[u].availableHoursPerWeek
              => users'[u].availableHoursPerWeek
                    >= CommittedHours(goals, requestedHours, u)]_vars

\* C18: a goal update whose resulting status is active and whose resulting
\* hours, added to the hours of the user's other active goals, exceed
\* availableHoursPerWeek is rejected and leaves the goal unchanged.
GoalUpdateRespectsCapacity ==
    [][\A g \in DOMAIN goals :
          (/\ goals'[g] # goals[g] \/ requestedHours'[g] # requestedHours[g]
           /\ goals'[g].status = "active")
              => CommittedHours(goals', requestedHours', goals[g].userId)
                    <= users[goals[g].userId].availableHoursPerWeek]_vars

GoalRoutes == {"PATCH /v1/goals/:goalId", "POST /v1/goals/:goalId/milestones"}

MilestoneRoutes == {"POST /v1/milestones/:milestoneId/tasks"}

TaskRoutes == {"PATCH /v1/tasks/:taskId", "POST /v1/tasks/:taskId/done",
               "GET /v1/tasks/:taskId"}

GoalOwner(g) == IF g \in DOMAIN goals THEN <<goals[g].userId>> ELSE <<>>

MilestoneOwner(m) ==
    IF m \in DOMAIN milestones THEN GoalOwner(milestones[m].goalId) ELSE <<>>

TaskChainOwner(t) ==
    IF t \in DOMAIN tasks THEN MilestoneOwner(tasks[t].milestoneId) ELSE <<>>

\* the owner at the end of the ownership chain of the entity a response is about
ChainOwner(resp) ==
    IF resp.op \in GoalRoutes THEN GoalOwner(resp.input.goalId)
    ELSE IF resp.op \in MilestoneRoutes THEN MilestoneOwner(resp.input.milestoneId)
    ELSE IF resp.op \in TaskRoutes THEN TaskChainOwner(resp.input.taskId)
    ELSE <<>>

\* C19: a read or write on a goal, a milestone or a task whose ownership chain
\* ends at a goal of another user is answered Forbidden (403) and changes no
\* record; the chain is followed from the task through its milestone to the goal.
ForeignEntityForbidden ==
    [][(ChainOwner(last') # <<>> /\ ChainOwner(last')[1] # last'.user)
          => (last'.status = 403 /\ UNCHANGED storeVars)]_vars

\* a read or a write of u2 on a task under a milestone under a goal of u1 were
\* answered Forbidden, while u2 has a goal of their own
ForeignEntityWitness ==
    /\ last.op \in TaskRoutes
    /\ last.user = "u2"
    /\ last.status = 403
    /\ TaskChainOwner(last.input.taskId) = <<"u1">>
    /\ \E g \in DOMAIN goals : goals[g].userId = "u2"

\* C20: the capacity check of a finalization is decided on the user's
\* availableHoursPerWeek and the active-goal hour sum as they are stored when
\* the check runs, after the engine has answered: the finalization is refused
\* with the capacity conflict exactly when the sum plus the plan's hours
\* exceeds the stored budget.
FinalizationChecksStoredBudget ==
    [][\A k \in Slots :
          RunsPhase(k, "finalizeCheck") =>
              LET rq == inflight[k][1]
                  plan == resolvePlan(Store, actionPayload(rq))
                  exceeds == sumActiveGoalHours(goals, rq.user, NoId) + plan.planHours
                                 > users[rq.user].availableHoursPerWeek
              IN exceeds <=> (inflight'[k] = <<>> /\ last'.status = 409)]_vars

GetLatestOp == "GET /v1/agent/goal/session:latest"

ActiveSessionsOf(u) ==
    {s \in DOMAIN sessions : sessions[s].userId = u /\ sessions[s].sessionActive}

UpdatedAt(s) == CHOOSE i \in DOMAIN recency : recency[i] = s

MostRecentlyUpdated(S) == CHOOSE s \in S : \A t \in S : UpdatedAt(t) <= UpdatedAt(s)

NonEmpty(candidate) == candidate # <<>> /\ candidate[1] # <<>>

\* the stored GoalPreview a finalize payload names, by its goalPreviewId or by
\* the id of its embedded goalPreview
NamedPreview(payload) ==
    LET id == IF Has(payload, "goalPreviewId") THEN <<payload.goalPreviewId>>
              ELSE IF Has(payload, "goalPreview") /\ Has(payload.goalPreview, "id")
              THEN <<payload.goalPreview.id>>
              ELSE <<>>
    IN IF id # <<>> /\ previews[id[1]] # <<>> THEN <<previews[id[1]][1].data>> ELSE <<>>

FirstNonEmpty(candidates) ==
    LET filled == {i \in DOMAIN candidates : NonEmpty(candidates[i])}
    IN IF filled = {} THEN <<>>
       ELSE candidates[CHOOSE i \in filled : \A j \in filled : i <= j]

\* the request in slot k passes the capacity check of its finalization
PassesFinalizeCheck(k) ==
    /\ RunsPhase(k, "finalizeCheck")
    /\ inflight'[k] # <<>>

\* C22: the plan of a finalization is read from the first non-empty one of the
\* embedded goalPreview, the embedded plan, the stored GoalPreview the payload
\* names and the payload itself; an empty candidate is skipped.
PlanReadFromFirstNonEmpty ==
    [][\A k \in Slots :
          PassesFinalizeCheck(k) =>
              LET payload == actionPayload(inflight[k][1])
                  first == FirstNonEmpty(<<Prop(payload, "goalPreview"),
                                           Prop(payload, "plan"),
                                           NamedPreview(payload)>>)
              IN inflight'[k][1].locals.plan.planContainer
                     = Coalesce(first, <<payload>>)[1]]_vars

\* the payload embeds no plan and names no preview
NamesNoPlan(payload) ==
    \A f \in {"goalPreview", "plan", "goalPreviewId", "goal", "milestones"} :
        ~Has(payload, f)

\* C23: when the session holds the id of a preview saved earlier and the
\* finalize_goal payload embeds no plan and names no preview, the plan that is
\* committed is the one of the stored GoalPreview of the session.
SessionPreviewCommitted ==
    [][\A k \in Slots :
          (/\ PassesFinalizeCheck(k)
           /\ NamesNoPlan(actionPayload(inflight[k][1]))
           /\ inflight[k][1].locals.session.goalPreviewId # <<>>)
          => LET id == inflight[k][1].locals.session.goalPreviewId[1]
             IN /\ previews[id] # <<>>
                /\ inflight'[k][1].locals.plan.planContainer = previews[id][1].data]_vars

\* C24: a finalization whose hours fit the budget succeeds whatever else the
\* payload holds: the goal, a milestone per plan milestone and a task per plan
\* task are committed, a malformed date is replaced by the current day and
\* malformed hours by 0.
FinalizationWithinBudgetCommits ==
    [][\A k \in Slots :
          RunsPhase(k, "finalizeCommit") =>
              LET plan == inflight[k][1].locals.plan
              IN /\ inflight'[k] # <<>>
                 /\ inflight'[k][1].pc = "updateSession"
                 /\ Len(goals') = Len(goals) + 1
                 /\ Len(milestones') = Len(milestones) + Len(plan.milestonePlans)
                 /\ Len(tasks') = Len(tasks) + CountPlanTasks(plan.milestonePlans)
                 /\ \A t \in DOMAIN tasks' \ DOMAIN tasks :
                        tasks'[t].estimatedHours >= 0]_vars

\* the tasks of a plan in plan order, each with the position of its milestone
\* plan and whether the plan marks it done
RECURSIVE PlanTaskList(_)
PlanTaskList(milestonePlans) ==
    IF milestonePlans = <<>> THEN <<>>
    ELSE LET n == Len(milestonePlans)
             ts == planTasks(milestonePlans[n])
         IN PlanTaskList(SubSeq(milestonePlans, 1, n - 1))
            \o [j \in 1..Len(ts) |->
                   [milestone |-> n, done |-> Has(ts[j], "done") /\ ts[j].done]]

\* the request in slot k commits its finalization
CommitsFinalization(k) ==
    /\ RunsPhase(k, "finalizeCommit")
    /\ inflight'[k] # <<>>
    /\ inflight'[k][1].pc = "updateSession"

\* C25: a successful finalization creates one active Goal, one Milestone per
\* plan milestone and one Task per plan task under the Milestone of its plan
\* milestone, reports the ids of exactly these records in plan order, and
\* leaves a task done exactly when the plan marks it done.
CommitCreatesPlanRecords ==
    [][\A k \in Slots :
          CommitsFinalization(k) =>
              LET rq == inflight[k][1]
                  plan == rq.locals.plan
                  g == Len(goals) + 1
                  n == Len(plan.milestonePlans)
                  list == PlanTaskList(plan.milestonePlans)
                  out == inflight'[k][1].locals.responseAction[1].payload
              IN /\ Len(goals') = g
                 /\ SubSeq(goals', 1, Len(goals)) = goals
                 /\ goals'[g].status = "active"
                 /\ goals'[g].userId = rq.user
                 /\ Len(milestones') = Len(milestones) + n
                 /\ SubSeq(milestones', 1, Len(milestones)) = milestones
                 /\ \A i \in 1..n : milestones'[Len(milestones) + i].goalId = g
                 /\ Len(tasks') = Len(tasks) + Len(list)
                 /\ SubSeq(tasks', 1, Len(tasks)) = tasks
                 /\ \A j \in 1..Len(list) :
                        LET t == tasks'[Len(tasks) + j]
                        IN /\ t.goalId = g
                           /\ t.milestoneId = Len(milestones) + list[j].milestone
                           /\ t.userId = rq.user
                           /\ t.done = list[j].done
                 /\ out.goalId = g
                 /\ out.milestoneIds = [i \in 1..n |-> Len(milestones) + i]
                 /\ out.taskIds = [j \in 1..Len(list) |-> Len(tasks) + j]]_vars

\* a plan of two milestones and three tasks, one of them done, was committed
CommitCreatesWitness ==
    /\ last.op = MessageOp
    /\ last.status = 200
    /\ last.body.action.type = "finalize_goal"
    /\ last.body.action.payload.milestoneIds = <<1, 2>>
    /\ last.body.action.payload.taskIds = <<1, 2, 3>>
    /\ tasks[1].milestoneId = 1 /\ ~tasks[1].done
    /\ tasks[2].milestoneId = 2 /\ tasks[2].done
    /\ tasks[3].milestoneId = 2 /\ ~tasks[3].done

\* the hours of the tasks i..Len of a list of task plans, a missing or negative
\* value counted as 0
RECURSIVE TaskHoursFrom(_, _)
TaskHoursFrom(taskPlans, i) ==
    IF i > Len(taskPlans) THEN 0
    ELSE (IF "estimatedHours" \in DOMAIN taskPlans[i] /\ taskPlans[i].estimatedHours > 0
          THEN taskPlans[i].estimatedHours ELSE 0)
         + TaskHoursFrom(taskPlans, i + 1)

RECURSIVE MilestoneHoursFrom(_, _)
MilestoneHoursFrom(milestonePlans, i) ==
    IF i > Len(milestonePlans) THEN 0
    ELSE (IF "tasks" \in DOMAIN milestonePlans[i]
          THEN TaskHoursFrom(milestonePlans[i].tasks, 1) ELSE 0)
         + MilestoneHoursFrom(milestonePlans, i + 1)

\* the weekly hours of a plan container
ExpectedPlanHours(container) ==
    IF "goal" \in DOMAIN container /\ "minHoursPerWeek" \in DOMAIN container.goal
    THEN (IF container.goal.minHoursPerWeek > 0 THEN container.goal.minHoursPerWeek ELSE 0)
    ELSE IF "milestones" \in DOMAIN container
    THEN MilestoneHoursFrom(container.milestones, 1)
    ELSE 0

\* C26: the hours a finalized goal is checked and created with are the plan's
\* goal.minHoursPerWeek clamped at 0 when the plan gives it, and otherwise the
\* sum of the estimatedHours of all plan tasks, a missing or negative value
\* counted as 0.
PlanHoursFromGoalOrTasks ==
    [][\A k \in Slots :
          /\ RunsPhase(k, "finalizeCheck") =>
                LET rq == inflight[k][1]
                    hours == ExpectedPlanHours(resolvePlan(Store, actionPayload(rq)).planContainer)
                    refused == inflight'[k] = <<>> /\ last'.status = 409
                IN /\ refused <=> (sumActiveGoalHours(goals, rq.user, NoId) + hours
                                       > rq.locals.userRec.availableHoursPerWeek)
                   /\ refused => last'.body.requiredHoursPerWeek
                                     = sumActiveGoalHours(goals, rq.user, NoId) + hours
                   /\ ~refused => inflight'[k][1].locals.plan.planHours = hours
          /\ CommitsFinalization(k) =>
                requestedHours' =
                    Append(requestedHours,
                           ExpectedPlanHours(inflight[k][1].locals.plan.planContainer))]_vars

\* a goal was committed with the hours of its tasks, of which one has negative
\* hours and one has none
PlanHoursWitness ==
    /\ last.op = MessageOp
    /\ last.status = 200
    /\ last.body.action.type = "finalize_goal"
    /\ Len(tasks) = 3
    /\ requestedHours = <<1>>
    /\ tasks[1].estimatedHours = 0
    /\ tasks[3].estimatedHours = 0

\* the tasks of user u that are not done
IncompleteTasksOf(ts, u) == {t \in DOMAIN ts : ts[t].userId = u /\ ~ts[t].done}

\* list holds exactly the tasks of ids, by ascending date, tasks of one date in
\* the order of their creation
ListsByDate(list, ts, ids) ==
    /\ Len(list) = Cardinality(ids)
    /\ {list[i].id : i \in DOMAIN list} = ids
    /\ \A i \in DOMAIN list : list[i].date = ts[list[i].id].date
    /\ \A i, j \in DOMAIN list :
          i < j => \/ list[i].date < list[j].date
                   \/ (list[i].date = list[j].date /\ list[i].id < list[j].id)

\* a context snapshot of user u built from the store gs, hs, ts
IsContextOf(context, u, available, gs, hs, ts) ==
    /\ context.availableHoursLeft = Max(0, available - CommittedHours(gs, hs, u))
    /\ context.availableHoursLeft >= 0
    /\ ListsByDate(context.upcomingTasks, ts, IncompleteTasksOf(ts, u))

\* C27: the context built for a user holds availableHoursLeft = max(0,
\* availableHoursPerWeek - the hours of the user's active goals) and
\* upcomingTasks = the user's tasks that are not done, by ascending date.
ContextBuiltFromLedger ==
    [][Len(sessions') > Len(sessions) =>
          LET created == sessions'[Len(sessions')]
              u == created.userId
          IN IsContextOf(created.context, u, users[u].availableHoursPerWeek,
                         goals, requestedHours, tasks)]_vars

\* the request in slot k ends an exchange in which a finalization was committed
FinalizedExchangeEnds(k) ==
    /\ RunsPhase(k, "updateSession")
    /\ inflight'[k] = <<>>
    /\ last'.status = 200
    /\ last'.body.action.type = "finalize_goal"

\* C28: after a committed finalization the context stored in the session and
\* returned to the caller is built from the store as it is after the commit,
\* with the new goal's hours taken off availableHoursLeft and the new tasks
\* that are not done among upcomingTasks, whatever context the engine returned.
ContextRebuiltAfterCommit ==
    [][\A k \in Slots :
          FinalizedExchangeEnds(k) =>
              LET rq == inflight[k][1]
                  sid == rq.locals.sessionId
              IN /\ sessions'[sid].context = last'.body.context
                 /\ IsContextOf(last'.body.context, rq.user,
                                users[rq.user].availableHoursPerWeek,
                                goals, requestedHours, tasks)]_vars

\* the arguments of the part of a run payload called name, {} when it has none
PartArgs(payload, name) ==
    LET at == {i \in DOMAIN payload.parts :
                  "name" \in DOMAIN payload.parts[i] /\ payload.parts[i].name = name}
    IN IF at = {} THEN <<>> ELSE payload.parts[CHOOSE i \in at : TRUE].args

\* the preview the run call of rq is to carry, {} for none
PreviewToForward(rq) ==
    LET id == sessions[rq.input.sessionId].goalPreviewId
    IN IF rq.input.goalPreview # <<>> THEN rq.input.goalPreview[1]
       ELSE IF id # <<>> /\ previews[id[1]] # <<>> THEN previews[id[1]][1].data
       ELSE <<>>

\* C29: the preview forwarded to the engine is the one of the request body
\* when there is one, else the stored GoalPreview of the session when it has
\* one, else none; the availableHoursLeft and upcomingTasks forwarded are
\* built from the store while the request is served, not read from the
\* context stored in the session.
ForwardedContextIsFresh ==
    [][\A k \in Slots :
          RunsPhase(k, "run") =>
              LET rq == inflight[k][1]
                  sent == agentPayload(rq)
                  preview == PartArgs(sent, "goal_preview_context")
                  upcoming == PartArgs(sent, "task_context")
                  fresh == IncompleteTasksOf(tasks, rq.user)
              IN /\ (IF preview = <<>> THEN <<>> ELSE preview.goalPreview)
                        = PreviewToForward(rq)
                 /\ PartArgs(sent, "time_context").availableHoursLeft
                        = Max(0, users[rq.user].availableHoursPerWeek
                                   - sumActiveGoalHours(goals, rq.user, NoId))
                 /\ IF fresh = {} THEN upcoming = <<>>
                    ELSE ListsByDate(upcoming.upcomingTasks, tasks, fresh)]_vars

\* the engine was called for a message without a preview on a session that
\* holds a saved preview and a context returned by the engine
ForwardedContextWitness ==
    \E k \in Slots :
        /\ inflight[k] # <<>>
        /\ inflight[k][1].pc = "appendAgent"
        /\ inflight[k][1].input.goalPreview = <<>>
        /\ inflight[k][1].locals.session.goalPreviewId # <<>>
        /\ inflight[k][1].locals.session.context.availableHoursLeft = 0
        /\ PartArgs(agentPayload(inflight[k][1]), "time_context").availableHoursLeft
              = DefaultAvailableHours
        /\ PartArgs(agentPayload(inflight[k][1]), "goal_preview_context").goalPreview
              = PlanOne

\* the engine's returned state supplies the field f to the request rq
EngineSupplies(rq, f) ==
    LET state == rq.locals.agentResponse.state
    IN state # <<>> /\ f \in DOMAIN state[1]

\* the type of the action the engine returned to the request rq, "" for none
EngineActionType(rq) ==
    LET action == rq.locals.agentResponse.action
    IN IF action # <<>> /\ "type" \in DOMAIN action[1] THEN action[1].type ELSE ""

\* C30: when an exchange ends whose action is neither save_preview nor
\* finalize_goal, each of state, goalPreviewId and sessionActive that the
\* engine's returned state does not supply is stored with the value the
\* session had at entry.
UnsuppliedFieldsKept ==
    [][\A k \in Slots :
          (ExchangeEnds(k) /\ EngineActionType(inflight[k][1])
                                 \notin {"save_preview", "finalize_goal"})
          => LET rq == inflight[k][1]
                 entry == rq.locals.session
                 stored == sessions'[rq.locals.sessionId]
             IN /\ ~EngineSupplies(rq, "state") => stored.state = entry.state
                /\ ~EngineSupplies(rq, "goalPreviewId")
                      => stored.goalPreviewId = entry.goalPreviewId
                /\ ~EngineSupplies(rq, "sessionActive")
                      => stored.sessionActive = entry.sessionActive]_vars

\* a session that held a saved preview and a state set by the engine went
\* through a second exchange and still holds them
UnsuppliedFieldsWitness ==
    /\ last.op = MessageOp
    /\ last.status = 200
    /\ last.body.action.type = "none"
    /\ runCalls[last.input.sessionId] = 2
    /\ sessions[last.input.sessionId].state = "draft"
    /\ sessions[last.input.sessionId].goalPreviewId # <<>>
    /\ sessions[last.input.sessionId].iteration = MaxIteration
    /\ sessions[last.input.sessionId].sessionActive

\* C31: an exchange whose action type is none creates or changes no
\* GoalPreview, Goal, Milestone or Task and no user; it writes the user's and
\* the engine's chat entries of its session and the session record only.
NoneActionWritesSessionOnly ==
    [][(/\ last'.op = MessageOp
        /\ last'.status = 200
        /\ last'.body.action.type = "none")
       => LET sid == last'.input.sessionId
          IN /\ UNCHANGED <<previews, goals, milestones, tasks, users>>
             /\ chat' = [chat EXCEPT ![sid] =
                            @ \o <<[sender |-> "user", message |-> last'.input.message],
                                    [sender |-> "agent", message |-> "reply"]>>]
             /\ \A o \in DOMAIN sessions : o # sid => sessions'[o] = sessions[o]
             /\ DOMAIN sessions' = DOMAIN sessions]_vars

\* a second exchange, with action none, ended on a session that points to a
\* preview saved by its first exchange
NoneActionWitness ==
    /\ last.op = MessageOp
    /\ last.status = 200
    /\ last.body.action.type = "none"
    /\ sessions[last.input.sessionId].goalPreviewId # <<>>
    /\ Len(chat[last.input.sessionId]) = 4
    /\ previews["p1"] # <<>>

\* C32: when the run call fails the handler has made exactly one run call for
\* the message, the session record, every GoalPreview, Goal, Milestone, Task
\* and user are as before the message, and the transcript has gained the
\* user's message only.
RunFailureKeepsSession ==
    [][(/\ last'.op = MessageOp
        /\ last'.body = [error |-> "agent service"]
        /\ runCalls' # runCalls)
       => LET sid == last'.input.sessionId
          IN /\ runCalls' = [runCalls EXCEPT ![sid] = @ + 1]
             /\ UNCHANGED <<sessions, previews, goals, milestones, tasks, users>>
             /\ chat' = [chat EXCEPT ![sid] =
                            Append(@, [sender |-> "user",
                                       message |-> last'.input.message])]]_vars

\* the second message of a session failed on its run call: the session still
\* holds what the first exchange left, and the transcript has three entries
RunFailureWitness ==
    /\ last.op = MessageOp
    /\ last.body = [error |-> "agent service"]
    /\ runCalls[last.input.sessionId] = 2
    /\ Len(chat[last.input.sessionId]) = 3
    /\ sessions[last.input.sessionId].iteration = 1

\* the status a failed engine call is answered with
EngineErrorStatus(s) == IF s \in {0, 503} THEN 503 ELSE s

\* C33: whenever a message is about to make the bootstrap call, an answer of
\* 409 (like a 2xx answer) lets the handler go on to the run call, which it
\* then makes; any other status, and a transport failure, ends the message
\* with an error before any run call is made.
BootstrapConflictIsSuccess ==
    \A k \in Slots :
        (/\ inflight[k] # <<>>
         /\ inflight[k][1].op = MessageOp
         /\ inflight[k][1].pc = "bootstrap")
        => \A s \in EngineStatuses :
              LET env == [bootstrap |-> s, run |-> 200, response |-> PlainEnv.response]
                  sid == inflight[k][1].locals.sessionId
                  r == Step(Store, inflight[k][1], env, undefinedFieldPolicy)
                  next == Step(r.st, r.rq, env, undefinedFieldPolicy)
              IN /\ r.st.runCalls = runCalls
                 /\ r.st.bootstrapCalls[sid] = bootstrapCalls[sid] + 1
                 /\ s \in {200, 409}
                      => /\ r.rq.pc = "run"
                         /\ next.st.runCalls[sid] = runCalls[sid] + 1
                 /\ s \notin {200, 409}
                      => /\ r.rq.pc = "done"
                         /\ r.rq.resp.status = EngineErrorStatus(s)

\* the bootstrap call of a message was answered 409 and the run call has
\* been made
BootstrapConflictWitness ==
    \E k \in Slots :
        /\ inflight[k] # <<>>
        /\ inflight[k][1].pc = "appendAgent"
        /\ bootstrapCalls[inflight[k][1].locals.sessionId] = 1
        /\ runCalls[inflight[k][1].locals.sessionId] = 1

\* the phases a message handler can run right after phase pc
PhasesAfter(pc) ==
    CASE pc = "start" -> {"load", "done"}
      [] pc = "load" -> {"appendUser", "done"}
      [] pc = "appendUser" -> {"bootstrap", "run"}
      [] pc = "bootstrap" -> {"run", "done"}
      [] pc = "run" -> {"appendAgent", "done"}
      [] pc = "appendAgent" -> {"savePreview", "finalizeCheck", "updateSession"}
      [] pc = "savePreview" -> {"updateSession", "done"}
      [] pc = "finalizeCheck" -> {"finalizeCommit", "done"}
      [] pc = "finalizeCommit" -> {"updateSession", "done"}
      [] pc = "updateSession" -> {"done"}

\* C34: a message exchange adds exactly two entries to its session's
\* transcript: the user's message, in the one phase that precedes every
\* engine call of the message, and the engine's reply, in the one phase that
\* follows the answer to the run call; a successful exchange runs both
\* phases once.  No step of any request, concurrent ones included, modifies
\* or removes an entry of a transcript.
TranscriptGainsTwoEntries ==
    [][/\ \A s \in DOMAIN chat : IsPrefix(chat[s], chat'[s])
       /\ \A k \in Slots :
             (inflight[k] # <<>> /\ inflight'[k] # inflight[k]) =>
                 LET rq == inflight[k][1]
                     s == rq.locals.sessionId
                     entry(sender, message) == [sender |-> sender, message |-> message]
                 IN /\ (IF inflight'[k] = <<>> THEN "done" ELSE inflight'[k][1].pc)
                          \in PhasesAfter(rq.pc)
                    /\ rq.pc = "appendUser"
                         => chat' = [chat EXCEPT ![s] =
                                        Append(@, entry("user", rq.locals.message))]
                    /\ rq.pc = "appendAgent"
                         => /\ chat' = [chat EXCEPT ![s] =
                                           Append(@, entry("agent",
                                                           rq.locals.agentResponse.reply))]
                            /\ UNCHANGED <<bootstrapCalls, runCalls>>
                    /\ rq.pc \notin {"appendUser", "appendAgent"} => chat' = chat
                    /\ rq.pc \in {"bootstrap", "run"}
                         => \E i \in DOMAIN chat[s] :
                                chat[s][i] = entry("user", rq.locals.message)
                    /\ (inflight'[k] = <<>> /\ last'.status = 200)
                         => /\ rq.pc = "updateSession"
                            /\ \E i, j \in DOMAIN chat'[s] :
                                  /\ i < j
                                  /\ chat'[s][i] = entry("user", rq.locals.message)
                                  /\ chat'[s][j] =
                                        entry("agent", rq.locals.agentResponse.reply)]_vars

\* two exchanges of one session succeeded: the transcript alternates the
\* user's messages and the engine's replies
TranscriptWitness ==
    /\ last.op = MessageOp
    /\ last.status = 200
    /\ \A k \in Slots : inflight[k] = <<>>
    /\ LET c == chat[last.input.sessionId]
       IN /\ Len(c) = 4
          /\ c[1].sender = "user" /\ c[2].sender = "agent"
          /\ c[3].sender = "user" /\ c[4].sender = "agent"

\* C35: at every reachable state a user has at most one session with
\* sessionActive = true.
AtMostOneActiveSession == \A u \in Users : Cardinality(ActiveSessionsOf(u)) <= 1

FinalizationAllOrNothing ==
    [][\A k \in Slots :
          (/\ RunsPhase(k, "finalizeCommit")
           /\ inflight'[k] = <<>>
           /\ last'.status # 200)
          => UNCHANGED <<goals, milestones, tasks>>]_vars

\* C38: the weekly hours a goal was created or last updated with are the
\* hours the Capacity Ledger counts for it: for every user, sumActiveGoalHours
\* is the sum of these hours over the user's active goals.
LedgerCountsRequestedHours ==
    \A u \in Users :
        sumActiveGoalHours(goals, u, NoId) = CommittedHours(goals, requestedHours, u)

\* C39: a message whose session update was persisted is answered with the
\* reconciled success response, whatever the engine decided.
NoFailureAfterSessionUpdate ==
    [][(/\ last'.op = MessageOp
        /\ last'.input.sessionId \in DOMAIN sessions
        /\ sessions'[last'.input.sessionId] # sessions[last'.input.sessionId])
       => last'.status = 200]_vars

====
